---- MODULE Spec2Model ----
(***************************************************************************)
(* Attendly backend: the face-embedding similarity index (the Chroma,      *)
(* FAISS and Firestore adapters of services/) and the enrollment, removal  *)
(* and recognition handlers of routes/ that use it.                        *)
(*                                                                         *)
(* Numbers.  An embedding is a tuple of integers in fixed point: a vector  *)
(* of Euclidean norm 5 stands for a unit vector, so <<4, 3>> is            *)
(* (0.8, 0.6).  An encoding of the legacy model (128-d) has two            *)
(* components, an embedding of ArcFace (512-d) has three.  Similarities,   *)
(* distances and thresholds are in thousandths (1000 is 1.0, 675 is        *)
(* 0.675).  The input sets hold only vectors whose norm is an integer, so  *)
(* that normalisation is exact.                                            *)
(* Timestamps (created_at, updated_at) are kept as keys of the metadata    *)
(* with the value "now".                                                   *)
(***************************************************************************)
EXTENDS Integers, Sequences, FiniteSets, TLC

VARIABLES db_type, vdb, store_down, faceData, resp,
          arcface_model, loads, threads,
          class_enrollments, student_count, attendance_records, session

\* The application and its store.
appVars == <<db_type, vdb, store_down, faceData, resp>>

\* The module global _arcface_model of arcface_service, the number of models
\* that have been constructed, and the threads that run concurrently: the
\* position of each in its function and its locals.
threadVars == <<arcface_model, loads, threads>>

\* The tables of the one class and its one attendance session: the rows of
\* class_enrollments, the cached Class.student_count, the rows of
\* attendance_records, and the cached counts of the session.
classVars == <<class_enrollments, student_count, attendance_records, session>>

vars == <<db_type, vdb, store_down, faceData, resp, arcface_model, loads, threads,
          class_enrollments, student_count, attendance_records, session>>

\* ------------------------------------------------------------------ bounds

\* The most vectors the FAISS index is let grow to (it never shrinks).
MaxVectors == 2
\* The most faces in one classroom photo.
MaxFaces == 2
\* The threads that serve requests at the same time.
MaxThreads == 2
\* The most models the process is let construct.
MaxLoads == 3
\* The most student ids in one request to mark attendance.
MaxMarked == 2

\* ------------------------------------------------------ program constants

\* script_threshold = 0.35 and the threshold of the queries made from it.
ScriptThreshold == 350
VectorDbThreshold == (ScriptThreshold + 1000) \div 2

\* The bounds a recognition_threshold is checked against, and its default.
MinThreshold == 400
MaxThreshold == 900
DefaultThreshold == 600

\* top_k of the queries of recognize_students_from_photo and of
\* match_faces_with_students_vector_db.
TopKRecognize == 5
TopKAttendance == 10

\* ------------------------------------------------------------- the inputs

\* Python's None where a string (an id) is expected, and where an embedding is.
None == "None"
NoEmb == <<>>

Users == {1, 2}

\* Every student is actively enrolled in the one class of the model.
Enrolled == Users

\* The embedding the model gives for the face of each student: unit vectors,
\* of cosine similarity 0.8.
FaceOf(u) == IF u = 1 THEN <<5, 0>> ELSE <<4, 3>>

\* The embeddings of the faces in photos.
FaceEmb == {FaceOf(u) : u \in Users}

\* What an adapter may be handed: unit vectors and a vector of norm 10
\* (the legacy model's encodings are not unit length).
StoreEmb == {<<5, 0>>, <<4, 3>>, <<8, 6>>}

\* _arcface_model = None, and a model: the n-th one that was constructed is <<n>>.
NoModel == <<>>

\* No model is loaded and no thread runs.
NoThreads ==
    /\ arcface_model = NoModel
    /\ loads = 0
    /\ threads = <<>>

\* A class that nobody joined and a session with no attendance.
NoClass ==
    /\ class_enrollments = <<>>
    /\ student_count = 0
    /\ attendance_records = <<>>
    /\ session = [present_count |-> 0, absent_count |-> 0, total_students |-> 0]

\* ------------------------------------------------------------ arithmetic

\* np.dot of two vectors of one length.
RECURSIVE Dot(_, _)
Dot(a, b) == IF a = <<>> THEN 0 ELSE Head(a) * Head(b) + Dot(Tail(a), Tail(b))

\* np.linalg.norm, on vectors whose norm is an integer.
Sqrt(x) == CHOOSE n \in 0..20 : n * n = x
Norm(a) == Sqrt(Dot(a, a))

\* encoding / np.linalg.norm(encoding), in the fixed point where 5 is 1.0.
Normalize(a) == [i \in 1..Len(a) |-> (a[i] * 5) \div Norm(a)]

\* The inner product of two normalised vectors (IndexFlatIP), in thousandths.
InnerProduct(a, b) == (Dot(a, b) * 1000) \div 25

\* FirestoreVectorDB._cosine_similarity, in thousandths.
CosineSimilarity(a, b) ==
    IF Norm(a) = 0 \/ Norm(b) = 0 THEN 0
    ELSE (Dot(a, b) * 1000) \div (Norm(a) * Norm(b))

\* A similarity that was returned, and an exception that left the function.
Value(v) == [value |-> v, raised |-> FALSE]
Exception == [value |-> None, raised |-> TRUE]

\* arcface_service.compute_similarity: the norms, 0.0 when one is zero, then
\* np.dot, whose ValueError on two lengths is caught and answered with 0.0.
compute_similarity(embedding1, embedding2) ==
    IF Norm(embedding1) = 0 \/ Norm(embedding2) = 0 THEN Value(0)
    ELSE IF Len(embedding1) # Len(embedding2) THEN Value(0)
    ELSE Value(CosineSimilarity(embedding1, embedding2))

\* FirestoreVectorDB._cosine_similarity: the same, with nothing caught.
cosine_similarity(a, b) ==
    IF Norm(a) = 0 \/ Norm(b) = 0 THEN Value(0)
    ELSE IF Len(a) # Len(b) THEN Exception
    ELSE Value(CosineSimilarity(a, b))

\* The distance of a Chroma collection created without "hnsw:space": the
\* squared L2 distance, in thousandths.
ChromaDistance(a, b) ==
    (Dot([i \in 1..Len(a) |-> a[i] - b[i]], [i \in 1..Len(a) |-> a[i] - b[i]]) * 1000)
        \div 25

\* ----------------------------------------------------------- dictionaries

EmptyDict == [k \in {} |-> None]

\* {**base, **over} and dict.update: the keys of both, over's values winning.
Merge(base, over) ==
    [k \in (DOMAIN base) \cup (DOMAIN over) |->
        IF k \in DOMAIN over THEN over[k] ELSE base[k]]

\* del d[key]
Without(d, key) == [k \in (DOMAIN d) \ {key} |-> d[k]]

\* d[key] = value
With(d, key, value) == [k \in (DOMAIN d) \cup {key} |-> IF k = key THEN value ELSE d[k]]

\* ---------------------------------------------------------------- sorting

\* The elements of a set of numbers in ascending order.
RECURSIVE Ascending(_)
Ascending(S) ==
    IF S = {} THEN <<>>
    ELSE LET least == CHOOSE x \in S : \A y \in S : x <= y
         IN  <<least>> \o Ascending(S \ {least})

Reverse(seq) == [i \in 1..Len(seq) |-> seq[Len(seq) + 1 - i]]

\* The order in which a library meets its entries: equally similar ones come
\* out lowest id first (tieLow) or highest id first.
ScanOrder(S, tieLow) == IF tieLow THEN Ascending(S) ELSE Reverse(Ascending(S))

\* seq[:], the whole of it.
TakeAll(seq, k) == seq

\* seq[:k]
Take(seq, k) == SubSeq(seq, 1, IF k < Len(seq) THEN k ELSE Len(seq))

\* The place of m in a sequence that is sorted by descending similarity: after
\* every element that is not smaller (the sort is stable).
RECURSIVE InsertDesc(_, _)
InsertDesc(sorted, m) ==
    IF sorted = <<>> THEN <<m>>
    ELSE IF Head(sorted).similarity >= m.similarity
         THEN <<Head(sorted)>> \o InsertDesc(Tail(sorted), m)
         ELSE <<m>> \o sorted

\* sorted(matches, key=lambda x: x['similarity'], reverse=True)
RECURSIVE SortedBySimilarity(_)
SortedBySimilarity(matches) ==
    IF matches = <<>> THEN <<>>
    ELSE InsertDesc(SortedBySimilarity(SubSeq(matches, 1, Len(matches) - 1)),
                    matches[Len(matches)])

\* [m for m in matches if m.similarity >= threshold]
RECURSIVE AtLeast(_, _)
AtLeast(matches, threshold) ==
    IF matches = <<>> THEN <<>>
    ELSE (IF Head(matches).similarity >= threshold THEN <<Head(matches)>> ELSE <<>>)
         \o AtLeast(Tail(matches), threshold)

\* ------------------------------------------------- results of adapter calls

\* A call that returned ret and left the store as db.
Returned(db, ret) == [db |-> db, ret |-> ret, raised |-> FALSE]

\* A call that raised ValueError and left the store as db.
Raised(db) == [db |-> db, ret |-> None, raised |-> TRUE]

\* f"user_{user_id}"
DocId(u) == "user_" \o ToString(u)

\* ------------------------------------------------------------ ChromaVectorDB
\* The collection: document (user) -> [embedding, metadata].

ChromaEmpty == EmptyDict

ChromaMeta(u, e, stamp, m) ==
    Merge([user_id |-> u, encoding_dimension |-> Len(e)] @@ (stamp :> "now"), m)

\* collection.add keeps the record an id already has: depending on the
\* library's version it ignores the new one or raises (dupRaises).
\* A collection has the dimension of the embeddings it holds, and refuses an
\* embedding of another length.
ChromaRefuses(c, e) == \E u \in DOMAIN c : Len(c[u].embedding) # Len(e)

ChromaAdd(c, u, e, m, dupRaises) ==
    IF e = NoEmb \/ ChromaRefuses(c, e) THEN Raised(c)
    ELSE IF u \in DOMAIN c
         THEN (IF dupRaises THEN Raised(c) ELSE Returned(c, DocId(u)))
         ELSE Returned(With(c, u, [embedding |-> e,
                                   metadata |-> ChromaMeta(u, e, "created_at", m)]),
                       DocId(u))

ChromaMatch(c, q, u) ==
    [user_id    |-> c[u].metadata["user_id"],
     similarity |-> 1000 - ChromaDistance(q, c[u].embedding),
     distance   |-> ChromaDistance(q, c[u].embedding),
     metadata   |-> c[u].metadata]

\* The records of the collection, in the order given, as matches.
RECURSIVE ChromaMatches(_, _, _)
ChromaMatches(c, q, order) ==
    IF order = <<>> THEN <<>>
    ELSE <<ChromaMatch(c, q, Head(order))>> \o ChromaMatches(c, q, Tail(order))

\* collection.query: the top_k records nearest to q, nearest first.
ChromaQuery(c, q, top_k, tieLow) ==
    Take(SortedBySimilarity(ChromaMatches(c, q, ScanOrder(DOMAIN c, tieLow))), top_k)

ChromaSearch(c, q, top_k, threshold, tieLow) ==
    IF q = NoEmb \/ ChromaRefuses(c, q) THEN Raised(c)
    ELSE Returned(c, SortedBySimilarity(AtLeast(ChromaQuery(c, q, top_k, tieLow),
                                                threshold)))

\* collection.update replaces the embedding and writes the given metadata keys
\* over the ones the record has (keys it does not name stay).
ChromaUpdate(c, u, e, m) ==
    IF u \notin DOMAIN c THEN Returned(c, FALSE)
    ELSE IF e = NoEmb \/ ChromaRefuses(c, e) THEN Raised(c)
    ELSE Returned(With(c, u, [embedding |-> e,
                              metadata |-> Merge(c[u].metadata,
                                                 ChromaMeta(u, e, "updated_at", m))]),
                  TRUE)

\* collection.delete alone, without the look for the record first.
ChromaDeleteUnchecked(c, u) == Returned(Without(c, u), TRUE)

ChromaDelete(c, u) ==
    IF u \notin DOMAIN c THEN Returned(c, FALSE)
    ELSE Returned(Without(c, u), TRUE)

ChromaGet(c, u) ==
    IF u \in DOMAIN c
    THEN Returned(c, [user_id |-> u, encoding |-> c[u].embedding,
                      metadata |-> c[u].metadata])
    ELSE Returned(c, EmptyDict)

\* ------------------------------------------------------------- FAISSVectorDB
\* index: the vectors added, in order (index id = position - 1);
\* user_id_to_index and metadata: the two dictionaries.

FaissEmpty == [index |-> <<>>, user_id_to_index |-> EmptyDict, metadata |-> EmptyDict]

\* self.dimension = 128: the index takes encodings of the legacy model only.
FaissDimension == 2

FaissAdd(f, u, e, m) ==
    IF e = NoEmb \/ Len(e) # FaissDimension THEN Raised(f)
    ELSE LET index_id == Len(f.index)
         IN  Returned([index            |-> Append(f.index, Normalize(e)),
                       user_id_to_index |-> With(f.user_id_to_index, u, index_id),
                       metadata         |-> With(f.metadata, u,
                            Merge([user_id |-> u, index_id |-> index_id,
                                   encoding_dimension |-> Len(e),
                                   created_at |-> "now"], m))],
                      ToString(index_id))

\* The user whose mapping is idx, as a set: empty when no user maps to it.
FaissUserOf(f, idx) == {u \in DOMAIN f.user_id_to_index : f.user_id_to_index[u] = idx}

\* The vectors of the index, in the order given, with their inner products.
RECURSIVE FaissHits(_, _, _)
FaissHits(f, qn, order) ==
    IF order = <<>> THEN <<>>
    ELSE <<[idx |-> Head(order),
            similarity |-> InnerProduct(qn, f.index[Head(order) + 1])]>>
         \o FaissHits(f, qn, Tail(order))

\* index.search: the k vectors of greatest inner product with qn, greatest first.
FaissIndexSearch(f, qn, k, tieLow) ==
    Take(SortedBySimilarity(FaissHits(f, qn, ScanOrder(0..(Len(f.index) - 1), tieLow))),
         k)

\* The match made of a hit whose index id is the mapping of user_id.
FaissMatch(f, hit, user_id) ==
    [user_id    |-> user_id,
     similarity |-> hit.similarity,
     index_id   |-> hit.idx,
     metadata   |-> IF user_id \in DOMAIN f.metadata THEN f.metadata[user_id]
                    ELSE EmptyDict]

\* The loop over the hits: one at or over the threshold whose index id is the
\* mapping of a user gives a match.
RECURSIVE FaissMatches(_, _, _)
FaissMatches(f, hits, threshold) ==
    IF hits = <<>> THEN <<>>
    ELSE (IF Head(hits).similarity >= threshold /\ FaissUserOf(f, Head(hits).idx) # {}
          THEN <<FaissMatch(f, Head(hits),
                            CHOOSE u \in FaissUserOf(f, Head(hits).idx) : TRUE)>>
          ELSE <<>>)
         \o FaissMatches(f, Tail(hits), threshold)

FaissSearch(f, q, top_k, threshold, tieLow) ==
    IF Len(f.index) = 0 THEN Returned(f, <<>>)
    ELSE IF q = NoEmb \/ Len(q) # FaissDimension THEN Raised(f)
    ELSE Returned(f, SortedBySimilarity(
                         FaissMatches(f, FaissIndexSearch(f, Normalize(q), top_k, tieLow),
                                      threshold)))

FaissDelete(f, u) ==
    IF u \notin DOMAIN f.user_id_to_index THEN Returned(f, FALSE)
    ELSE Returned([f EXCEPT !.user_id_to_index = Without(@, u),
                            !.metadata = Without(@, u)], TRUE)

FaissUpdate(f, u, e, m) ==
    LET removed == IF u \in DOMAIN f.user_id_to_index THEN FaissDelete(f, u).db ELSE f
        added   == FaissAdd(removed, u, e, m)
    IN  IF added.raised THEN Raised(removed) ELSE Returned(added.db, TRUE)

FaissGet(f, u) ==
    IF u \notin DOMAIN f.user_id_to_index THEN Returned(f, EmptyDict)
    ELSE Returned(f, [user_id  |-> u,
                      index_id |-> f.user_id_to_index[u],
                      metadata |-> IF u \in DOMAIN f.metadata THEN f.metadata[u]
                                   ELSE EmptyDict])

\* --------------------------------------------------------- FirestoreVectorDB
\* The collection: document (user) -> [embedding, metadata].

FirestoreEmpty == EmptyDict

FirestoreMeta(u, e, stamp, m) ==
    Merge([user_id |-> u, encoding_dimension |-> Len(e)] @@ (stamp :> "now"), m)

FirestoreAdd(d, u, e, m) ==
    IF e = NoEmb THEN Raised(d)
    ELSE Returned(With(d, u, [embedding |-> e,
                              metadata |-> FirestoreMeta(u, e, "created_at", m)]),
                  DocId(u))

FirestoreGet(d, u) ==
    IF u \notin DOMAIN d THEN Returned(d, EmptyDict)
    ELSE Returned(d, [user_id |-> u, encoding |-> d[u].embedding,
                      metadata |-> d[u].metadata])

\* set(..., merge=True): the embedding is replaced, the metadata map is merged
\* into the one the document has.
FirestoreUpdate(d, u, e, m) ==
    IF e = NoEmb THEN Raised(d)
    ELSE Returned(With(d, u, [embedding |-> e,
                              metadata |-> Merge(IF u \in DOMAIN d THEN d[u].metadata
                                                 ELSE EmptyDict,
                                                 FirestoreMeta(u, e, "updated_at", m))]),
                  TRUE)

FirestoreDelete(d, u) ==
    IF u \notin DOMAIN d THEN Returned(d, FALSE)
    ELSE Returned(Without(d, u), TRUE)

FirestoreMatch(d, u, sim) ==
    [user_id    |-> d[u].metadata["user_id"],
     similarity |-> sim,
     distance   |-> 1000 - sim,
     metadata   |-> d[u].metadata]

\* The documents, in the order given, as matches.
RECURSIVE FirestoreMatches(_, _, _)
FirestoreMatches(d, q, docs) ==
    IF docs = <<>> THEN <<>>
    ELSE <<FirestoreMatch(d, Head(docs),
                          cosine_similarity(q, d[Head(docs)].embedding).value)>>
         \o FirestoreMatches(d, q, Tail(docs))

\* The documents stream in the order of their ids.
FirestoreSearch(d, q, top_k, threshold) ==
    IF q = NoEmb \/ \E u \in DOMAIN d : /\ Len(q) # Len(d[u].embedding)
                                        /\ cosine_similarity(q, d[u].embedding).raised
    THEN Raised(d)
    ELSE Returned(d, Take(SortedBySimilarity(
                              AtLeast(FirestoreMatches(d, q, Ascending(DOMAIN d)),
                                      threshold)),
                          top_k))

\* ----------------------------------------------------------- VectorDBService

DbEmpty(t) ==
    CASE t = "chroma"    -> ChromaEmpty
      [] t = "faiss"     -> FaissEmpty
      [] t = "firestore" -> FirestoreEmpty
      [] OTHER           -> EmptyDict

add_encoding(t, db, u, e, m, dupRaises) ==
    CASE t = "chroma"    -> ChromaAdd(db, u, e, m, dupRaises)
      [] t = "faiss"     -> FaissAdd(db, u, e, m)
      [] t = "firestore" -> FirestoreAdd(db, u, e, m)

search_similar(t, db, q, top_k, threshold, tieLow) ==
    CASE t = "chroma"    -> ChromaSearch(db, q, top_k, threshold, tieLow)
      [] t = "faiss"     -> FaissSearch(db, q, top_k, threshold, tieLow)
      [] t = "firestore" -> FirestoreSearch(db, q, top_k, threshold)

update_encoding(t, db, u, e, m) ==
    CASE t = "chroma"    -> ChromaUpdate(db, u, e, m)
      [] t = "faiss"     -> FaissUpdate(db, u, e, m)
      [] t = "firestore" -> FirestoreUpdate(db, u, e, m)

delete_encoding(t, db, u) ==
    CASE t = "chroma"    -> ChromaDelete(db, u)
      [] t = "faiss"     -> FaissDelete(db, u)
      [] t = "firestore" -> FirestoreDelete(db, u)

get_encoding(t, db, u) ==
    CASE t = "chroma"    -> ChromaGet(db, u)
      [] t = "faiss"     -> FaissGet(db, u)
      [] t = "firestore" -> FirestoreGet(db, u)

\* The number of vectors the store holds (FAISS: index.ntotal).
Ntotal(t, db) == IF t = "faiss" THEN Len(db.index) ELSE Cardinality(DOMAIN db)

\* A write is taken while the FAISS index, which only grows, has room; the
\* other stores hold one record for each user at most.
Room(t, db) == t = "faiss" => Ntotal(t, db) < MaxVectors


\* What the code leaves to the library is chosen at each call.  Chroma's add
\* of an id it has is ignored or raises: a choice when the id is there.
DupChoices(t, db, u) == IF t = "chroma" /\ u \in DOMAIN db THEN BOOLEAN ELSE {FALSE}

\* Two entries of the store are equally near to q.
Ties(t, db, q) ==
    CASE t = "chroma" /\ ~ChromaRefuses(db, q) ->
            \E u, w \in DOMAIN db :
                u # w /\ ChromaDistance(q, db[u].embedding) = ChromaDistance(q, db[w].embedding)
      [] t = "faiss" /\ Len(q) = FaissDimension ->
            \E i, j \in 1..Len(db.index) :
                i # j /\ InnerProduct(Normalize(q), db.index[i])
                         = InnerProduct(Normalize(q), db.index[j])
      [] OTHER -> FALSE

\* Chroma and FAISS return equally near entries in an order of their own: a
\* choice when a query of the request meets such entries.
TieChoices(t, db, queries) ==
    IF \E i \in 1..Len(queries) : Ties(t, db, queries[i]) THEN BOOLEAN ELSE {TRUE}

\* ------------------------------------------------------------- the handlers
\* faceData: user -> the user's row of the face_data table (user_id is unique),
\* [is_active, vector_db_id].  vdb is current_app.vector_db; db_type "none" is the
\* application whose vector database failed to initialise (vector_db is None).

\* FaceData.query.filter_by(user_id=u, is_active=True).first() is not None
HasActiveFaceData(fd, u) == u \in DOMAIN fd /\ fd[u].is_active

\* A store call of a request: it raises when the backing store is down.
Call(down, result, db) == IF down THEN Raised(db) ELSE result

\* np.mean(encodings, axis=0), on batches whose mean is a vector of integers.
\* The sum of vectors of one length.
RECURSIVE VecSum(_)
VecSum(encs) ==
    IF Len(encs) = 1 THEN Head(encs)
    ELSE [i \in 1..Len(Head(encs)) |-> Head(encs)[i] + VecSum(Tail(encs))[i]]

Mean(encs) == [i \in 1..Len(Head(encs)) |-> VecSum(encs)[i] \div Len(encs)]

\* The images of a batch that decoded and gave a face encoding.
RECURSIVE Usable(_)
Usable(images) ==
    IF images = <<>> THEN <<>>
    ELSE (IF Head(images) # NoEmb THEN <<Head(images)>> ELSE <<>>) \o Usable(Tail(images))

\* np.mean(all_encodings, axis=0) / np.linalg.norm(...)
AverageEncoding(encs) == Normalize(Mean(encs))

\* The metadata a handler passes; the names, versions, counts and dates it
\* also holds are left out.
HandlerMeta(u) == [user_id |-> u]

\* The vector database part of an enrollment is [db, vector_db_id, store_error].
\* After the add: its id, or the id there was when it raised.
AfterAdd(add, otherwise, store_error) ==
    [db |-> add.db,
     vector_db_id |-> IF add.raised THEN otherwise ELSE add.ret,
     store_error |-> store_error]

\* After the update of a row that has a vector_db_id.  addOnFalse:
\* upload_face_data adds the encoding when the update returns False.
AfterUpdate(upd, fd, u, e, down, dupRaises, addOnFalse) ==
    IF upd.raised
    THEN [db |-> upd.db, vector_db_id |-> None, store_error |-> down]
    ELSE IF addOnFalse /\ upd.ret = FALSE
    THEN AfterAdd(add_encoding(db_type, upd.db, u, e, HandlerMeta(u), dupRaises),
                  fd[u].vector_db_id, FALSE)
    ELSE [db |-> upd.db, vector_db_id |-> fd[u].vector_db_id, store_error |-> FALSE]

StoreEncoding(fd, db, u, e, down, dupRaises, addOnFalse) ==
    IF db_type = "none" THEN [db |-> db, vector_db_id |-> None, store_error |-> FALSE]
    ELSE IF HasActiveFaceData(fd, u) /\ fd[u].vector_db_id # None
    THEN AfterUpdate(Call(down, update_encoding(db_type, db, u, e, HandlerMeta(u)), db),
                     fd, u, e, down, dupRaises, addOnFalse)
    ELSE AfterAdd(Call(down, add_encoding(db_type, db, u, e, HandlerMeta(u), dupRaises),
                       db),
                  None, down /\ e # NoEmb)

\* The face_data part of an enrollment: the row is updated, or inserted; the
\* insert of a second row for a user violates the unique user_id, the commit
\* raises and the handler answers 500 after a rollback.
SaveFaceData(fd, u, vector_db_id) ==
    IF HasActiveFaceData(fd, u)
    THEN [fd |-> [fd EXCEPT ![u].vector_db_id = vector_db_id], status |-> 200]
    ELSE IF u \in DOMAIN fd
    THEN [fd |-> fd, status |-> 500]
    ELSE [fd |-> With(fd, u, [is_active |-> TRUE, vector_db_id |-> vector_db_id]),
          status |-> 201]

\* The end of an enrollment: st is what the store part gave, sv the row part.
EnrollEnd(handler, u, e, usable, st, sv) ==
    /\ vdb' = st.db
    /\ faceData' = sv.fd
    /\ resp' = [handler |-> handler, user |-> u, status |-> sv.status,
                usable |-> usable, encoding |-> e, store_error |-> st.store_error,
                dimensions |-> IF e = NoEmb THEN {} ELSE {Len(e)}]

EnrollSave(handler, u, e, usable, st) ==
    EnrollEnd(handler, u, e, usable, st, SaveFaceData(faceData, u, st.vector_db_id))

\* What an enrollment does once it has its encoding: the store, then the row.
Enroll(handler, u, e, usable, down, dupRaises, addOnFalse) ==
    EnrollSave(handler, u, e, usable,
           StoreEncoding(faceData, vdb, u, e, down, dupRaises, addOnFalse))

Reject(handler, u, status) ==
    /\ resp' = [handler |-> handler, user |-> u, status |-> status]
    /\ UNCHANGED <<vdb, faceData>>

\* The lengths of the encodings of a list.
Dimensions(encs) == {Len(encs[i]) : i \in 1..Len(encs)}

\* np.mean(encodings, axis=0) of encodings of two lengths raises; the handler
\* catches it at its end, rolls back and answers 500.
AggregationFailed(handler, u, encs) ==
    /\ resp' = [handler |-> handler, user |-> u, status |-> 500,
                usable |-> Len(encs), dimensions |-> Dimensions(encs)]
    /\ UNCHANGED <<vdb, faceData>>

\* The answer 400 to a batch with too few usable images: the numbers of usable
\* and of submitted images, and the message.
Insufficient(handler, u, usable, total, message) ==
    /\ resp' = [handler |-> handler, user |-> u, status |-> 400, usable |-> usable,
                total |-> total, message |-> message]
    /\ UNCHANGED <<vdb, faceData>>

\* POST /upload: one image; image is the encoding extract_face_encoding
\* returns, NoEmb when it finds no face.
UploadFaceData(u, image, dupRaises) ==
    /\ Enroll("upload_face_data", u, image, IF image = NoEmb THEN 0 ELSE 1,
              store_down, dupRaises, TRUE)
    /\ UNCHANGED <<db_type, store_down>>
    /\ UNCHANGED <<threadVars, classVars>>

\* POST /upload-for-recognition: 3 to 15 images, of which 2 must give a face.
UploadFaceForRecognition(u, images, dupRaises) ==
    /\ IF Len(images) < 3 \/ Len(images) > 15
       THEN Reject("upload_face_for_recognition", u, 400)
       ELSE IF Len(Usable(images)) < 2
       THEN Reject("upload_face_for_recognition", u, 400)
       ELSE IF Cardinality(Dimensions(Usable(images))) > 1
       THEN AggregationFailed("upload_face_for_recognition", u, Usable(images))
       ELSE Enroll("upload_face_for_recognition", u, AverageEncoding(Usable(images)),
                   Len(Usable(images)), store_down, dupRaises, FALSE)
    /\ UNCHANGED <<db_type, store_down>>
    /\ UNCHANGED <<threadVars, classVars>>

\* POST /student/upload-facial-data: 5 to 20 images, of which 3 must give a face.
StudentUploadFacialData(u, images, replace_existing, dupRaises) ==
    /\ IF Len(images) < 5 \/ Len(images) > 20
       THEN Reject("student_upload_facial_data", u, 400)
       ELSE IF HasActiveFaceData(faceData, u) /\ ~replace_existing
       THEN Reject("student_upload_facial_data", u, 400)
       ELSE IF Len(Usable(images)) < 3
       THEN Insufficient("student_upload_facial_data", u, Len(Usable(images)),
                         Len(images), "Insufficient valid facial images for registration")
       ELSE IF Cardinality(Dimensions(Usable(images))) > 1
       THEN AggregationFailed("student_upload_facial_data", u, Usable(images))
       ELSE Enroll("student_upload_facial_data", u, AverageEncoding(Usable(images)),
                   Len(Usable(images)), store_down, dupRaises, FALSE)
    /\ UNCHANGED <<db_type, store_down>>
    /\ UNCHANGED <<threadVars, classVars>>

\* POST /upload-batch-with-progress: 5 to 25 images.  Fewer than 3 usable ones
\* are insufficient; 3 or 4 are answered "Need more valid face images"; with 5
\* or more the handler averages, refuses a student who has active face data,
\* and then calls FaceData(encoding=..., metadata=...), keywords the model class
\* does not have: the TypeError is caught at the end and answered 500.
UploadBatchWithProgress(u, images) ==
    /\ IF Len(images) < 5 \/ Len(images) > 25
       THEN Reject("upload_batch_with_progress", u, 400)
       ELSE IF Len(Usable(images)) < 3
       THEN Insufficient("upload_batch_with_progress", u, Len(Usable(images)), Len(images),
                         "Insufficient valid face images for registration")
       ELSE IF Len(Usable(images)) < 5
       THEN Insufficient("upload_batch_with_progress", u, Len(Usable(images)), Len(images),
                         "Need more valid face images for registration")
       ELSE IF Cardinality(Dimensions(Usable(images))) > 1
       THEN AggregationFailed("upload_batch_with_progress", u, Usable(images))
       ELSE /\ resp' = [handler |-> "upload_batch_with_progress", user |-> u,
                        status |-> IF HasActiveFaceData(faceData, u) THEN 400 ELSE 500,
                        usable |-> Len(Usable(images)), total |-> Len(images),
                        message |-> IF HasActiveFaceData(faceData, u)
                                    THEN "Student already has registered facial data"
                                    ELSE "Internal server error"]
            /\ UNCHANGED <<vdb, faceData>>
    /\ UNCHANGED <<db_type, store_down>>
    /\ UNCHANGED <<threadVars, classVars>>

\* POST /multiple-upload.  An image is [decodes, encoding]: whether
\* decode_base64_image returns, and what extract_face_encoding then gives.
\* The encodings of the images that decoded, None (NoEmb) included.
RECURSIVE Decoded(_)
Decoded(images) ==
    IF images = <<>> THEN <<>>
    ELSE (IF Head(images).decodes THEN <<Head(images).encoding>> ELSE <<>>)
         \o Decoded(Tail(images))

\* The end of upload_multiple_face_data: the store part st, the row part sv.
MultipleEnd(u, images, e, st, sv) ==
    /\ vdb' = st.db
    /\ faceData' = sv.fd
    /\ resp' = [handler |-> "upload_multiple_face_data", user |-> u,
                status |-> sv.status, images |-> images,
                usable |-> Len(Decoded(images)), encoding |-> e,
                store_error |-> st.store_error]

MultipleSave(u, images, e, st) ==
    MultipleEnd(u, images, e, st, SaveFaceData(faceData, u, st.vector_db_id))

\* 2 to 5 images; every image that decodes is appended and counted, with the
\* None of an image without a face; np.mean of a list that holds None, or
\* encodings of two lengths, raises and is answered 500.
UploadMultipleFaceData(u, images, dupRaises) ==
    /\ IF Len(images) < 2 \/ Len(images) > 5
       THEN Reject("upload_multiple_face_data", u, 400)
       ELSE IF Len(Decoded(images)) = 0
       THEN Reject("upload_multiple_face_data", u, 400)
       ELSE IF Len(Decoded(images)) > 1
       THEN IF Usable(Decoded(images)) # Decoded(images)
               \/ Cardinality(Dimensions(Decoded(images))) > 1
            THEN /\ resp' = [handler |-> "upload_multiple_face_data", user |-> u,
                             status |-> 500, images |-> images,
                             usable |-> Len(Decoded(images))]
                 /\ UNCHANGED <<vdb, faceData>>
            ELSE MultipleSave(u, images, AverageEncoding(Decoded(images)),
                              StoreEncoding(faceData, vdb, u,
                                            AverageEncoding(Decoded(images)),
                                            store_down, dupRaises, TRUE))
       ELSE MultipleSave(u, images, Decoded(images)[1],
                         StoreEncoding(faceData, vdb, u, Decoded(images)[1],
                                       store_down, dupRaises, TRUE))
    /\ UNCHANGED <<db_type, store_down>>
    /\ UNCHANGED <<threadVars, classVars>>

\* POST /upload-orientations.  An item is [orientation, encoding]: its label
\* and what extract_face_encoding gives for its image.
allowed_orientations == <<"front", "left", "right", "up", "down">>

\* orientation_buckets[o]: the encodings of the items labelled o that gave a face.
RECURSIVE Bucket(_, _)
Bucket(items, o) ==
    IF items = <<>> THEN <<>>
    ELSE (IF Head(items).orientation = o /\ Head(items).encoding # NoEmb
          THEN <<Head(items).encoding>> ELSE <<>>)
         \o Bucket(Tail(items), o)

\* The orientations that have an encoding.
captured_orientations(items) ==
    {allowed_orientations[i] : i \in {j \in 1..Len(allowed_orientations) :
                                          Bucket(items, allowed_orientations[j]) # <<>>}}

\* avg / norm when the norm is not 0.
NormalizeIfPositive(avg) == IF Norm(avg) > 0 THEN Normalize(avg) ELSE avg

\* per_orientation_avg, as the list of its values in the order of
\* allowed_orientations, from orientation i on.
RECURSIVE PerOrientationAvg(_, _)
PerOrientationAvg(items, i) ==
    IF i > Len(allowed_orientations) THEN <<>>
    ELSE (IF Bucket(items, allowed_orientations[i]) # <<>>
          THEN <<NormalizeIfPositive(Mean(Bucket(items, allowed_orientations[i])))>>
          ELSE <<>>)
         \o PerOrientationAvg(items, i + 1)

\* The end of upload_face_data_with_orientations: it answers 201 for a new
\* row and for an updated one.
OrientationsEnd(u, items, e, st, sv) ==
    /\ vdb' = st.db
    /\ faceData' = sv.fd
    /\ resp' = [handler |-> "upload_face_data_with_orientations", user |-> u,
                status |-> IF sv.status = 500 THEN 500 ELSE 201,
                captured |-> captured_orientations(items),
                per_orientation |-> PerOrientationAvg(items, 1),
                encoding |-> e, store_error |-> st.store_error]

OrientationsSave(u, items, e, st) ==
    OrientationsEnd(u, items, e, st, SaveFaceData(faceData, u, st.vector_db_id))

\* Every one of the 5 orientations must have an encoding; the global
\* embedding is the normalised mean of the per-orientation averages.
UploadFaceDataWithOrientations(u, items, dupRaises) ==
    /\ IF Len(items) = 0
       THEN Reject("upload_face_data_with_orientations", u, 400)
       ELSE IF \E o \in captured_orientations(items) :
                  Cardinality(Dimensions(Bucket(items, o))) > 1
       THEN /\ resp' = [handler |-> "upload_face_data_with_orientations", user |-> u,
                        status |-> 500]
            /\ UNCHANGED <<vdb, faceData>>
       ELSE IF captured_orientations(items)
               # {allowed_orientations[i] : i \in 1..Len(allowed_orientations)}
       THEN /\ resp' = [handler |-> "upload_face_data_with_orientations", user |-> u,
                        status |-> 400, captured |-> captured_orientations(items)]
            /\ UNCHANGED <<vdb, faceData>>
       ELSE IF Cardinality(Dimensions(PerOrientationAvg(items, 1))) > 1
       THEN /\ resp' = [handler |-> "upload_face_data_with_orientations", user |-> u,
                        status |-> 500]
            /\ UNCHANGED <<vdb, faceData>>
       ELSE OrientationsSave(u, items,
                             NormalizeIfPositive(Mean(PerOrientationAvg(items, 1))),
                             StoreEncoding(faceData, vdb, u,
                                           NormalizeIfPositive(
                                               Mean(PerOrientationAvg(items, 1))),
                                           store_down, dupRaises, TRUE))
    /\ UNCHANGED <<db_type, store_down>>
    /\ UNCHANGED <<threadVars, classVars>>

\* DELETE /delete: the vector is deleted when there is a store and the row has a
\* vector_db_id, a failure of the store is only printed; the row is deactivated.
DeleteFaceData(u) ==
    /\ IF ~HasActiveFaceData(faceData, u)
       THEN Reject("delete_face_data", u, 404)
       ELSE LET del == IF db_type # "none" /\ faceData[u].vector_db_id # None
                       THEN Call(store_down, delete_encoding(db_type, vdb, u), vdb)
                       ELSE Returned(vdb, FALSE)
            IN  /\ vdb' = del.db
                /\ faceData' = [faceData EXCEPT ![u].is_active = FALSE]
                /\ resp' = [handler |-> "delete_face_data", user |-> u, status |-> 200,
                            store_error |-> del.raised]
    /\ UNCHANGED <<db_type, store_down>>
    /\ UNCHANGED <<threadVars, classVars>>

\* The outcome of the deletion of the face data of u: what the store is left
\* as, and whether its delete raised (which the handlers only log).
DeletedFromStore(u) ==
    IF db_type # "none" /\ faceData[u].vector_db_id # None
    THEN Call(store_down, delete_encoding(db_type, vdb, u), vdb)
    ELSE Returned(vdb, FALSE)

\* A deletion that answers 200 and leaves the row active.
DeleteStudentFacialDataKept(u) ==
    /\ IF ~HasActiveFaceData(faceData, u)
       THEN Reject("delete_student_facial_data", u, 404)
       ELSE /\ vdb' = DeletedFromStore(u).db
            /\ faceData' = faceData
            /\ resp' = [handler |-> "delete_student_facial_data", user |-> u,
                        status |-> 200, store_error |-> DeletedFromStore(u).raised]
    /\ UNCHANGED <<db_type, store_down>>
    /\ UNCHANGED <<threadVars, classVars>>

\* DELETE /student/delete-facial-data: 404 without active face data; else the
\* vector is deleted, a failure of the store is logged, and the row is
\* deactivated.
DeleteStudentFacialData(u) ==
    /\ IF ~HasActiveFaceData(faceData, u)
       THEN Reject("delete_student_facial_data", u, 404)
       ELSE /\ vdb' = DeletedFromStore(u).db
            /\ faceData' = [faceData EXCEPT ![u].is_active = FALSE]
            /\ resp' = [handler |-> "delete_student_facial_data", user |-> u,
                        status |-> 200, store_error |-> DeletedFromStore(u).raised]
    /\ UNCHANGED <<db_type, store_down>>
    /\ UNCHANGED <<threadVars, classVars>>

\* GET /student/facial-status: has_facial_data is whether the student has an
\* active row; with one, the store is asked for the vector.
GetStudentFacialStatus(u) ==
    /\ resp' = [handler |-> "get_student_facial_status", user |-> u, status |-> 200,
                has_facial_data |-> HasActiveFaceData(faceData, u)]
    /\ UNCHANGED <<db_type, vdb, store_down, faceData>>
    /\ UNCHANGED <<threadVars, classVars>>

\* ---------------------------------------------------------- recognition
\* A recognised student is [student_id, confidence, face_number].  face_number
\* is the detector's index of the face plus one; the attendance path does not
\* return it, the model keeps it to tell which face an entry came from.

\* A student_ids_recognized that nothing is ever added to.
student_ids_forgotten(recognized) == {}

\* student_ids_recognized: the identities claimed by the faces handled so far.
student_ids_recognized(recognized) ==
    {recognized[j].student_id : j \in 1..Len(recognized)}

\* The loop over the matches of one face in recognize_students_from_photo:
\* best_match is <<>> (None) or the one match taken, best_similarity its
\* confidence, 0 at first.
RECURSIVE BestMatch(_, _, _, _)
BestMatch(matches, enrolled_ids, claimed, best_match) ==
    IF matches = <<>> THEN best_match
    ELSE LET m == Head(matches)
             best_similarity == IF best_match = <<>> THEN 0
                                ELSE best_match[1].confidence
             take == /\ m.user_id \in enrolled_ids
                     /\ m.similarity > best_similarity
                     /\ m.user_id \notin claimed
         IN  BestMatch(Tail(matches), enrolled_ids, claimed,
                       IF take
                       THEN <<[student_id |-> m.user_id, confidence |-> m.similarity]>>
                       ELSE best_match)

\* The query made for one face of a photo.
QueryFace(face, top_k, threshold, down, tieLow) ==
    Call(down, search_similar(db_type, vdb, face, top_k, threshold, tieLow), vdb)

\* A loop that starts with a query that raised.
OneRaised == [recognized |-> <<>>, errors |-> 1]

\* What the loops over the faces keep: the students recognised so far, and the
\* number of queries that raised (which the code only logs).
NoneRecognized == [recognized |-> <<>>, errors |-> 0]

\* The end of the step for face i: best_match is appended unless its student
\* is claimed.
TakeMatch(acc, i, raised, best_match) ==
    [recognized |->
        IF /\ best_match # <<>>
           /\ best_match[1].student_id \notin student_ids_recognized(acc.recognized)
        THEN Append(acc.recognized, [student_id  |-> best_match[1].student_id,
                                     confidence  |-> best_match[1].confidence,
                                     face_number |-> i])
        ELSE acc.recognized,
     errors |-> IF raised THEN acc.errors + 1 ELSE acc.errors]

\* The step of recognize_students_from_photo for face i, whose query gave r.
RecognizeFace(acc, i, enrolled_ids, r) ==
    TakeMatch(acc, i, r.raised,
              BestMatch(IF r.raised THEN <<>> ELSE r.ret, enrolled_ids,
                        student_ids_recognized(acc.recognized), <<>>))

\* The loop over the faces of recognize_students_from_photo, from face i on.
RECURSIVE RecognizeLoop(_, _, _, _, _, _)
RecognizeLoop(faces, i, enrolled_ids, down, tieLow, acc) ==
    IF i > Len(faces) THEN acc
    ELSE IF db_type = "none"
    THEN RecognizeLoop(faces, i + 1, enrolled_ids, down, tieLow, acc)
    ELSE RecognizeLoop(faces, i + 1, enrolled_ids, down, tieLow,
                       RecognizeFace(acc, i, enrolled_ids,
                                     QueryFace(faces[i], TopKRecognize,
                                               VectorDbThreshold, down, tieLow)))

\* The answer of recognize_students_from_photo to a photo with faces.
RecognizeResponse(faces, recognition_threshold, enrolled_ids, out) ==
    [handler |-> "recognize_students_from_photo",
     status |-> 200, success |-> TRUE, faces |-> faces,
     recognition_threshold |-> recognition_threshold,
     recognized_students |-> out.recognized,
     total_faces_detected |-> Len(faces),
     total_recognized |-> Len(out.recognized),
     unrecognized_faces |-> Len(faces) - Len(out.recognized),
     enrolled_ids |-> enrolled_ids,
     query_errors |-> out.errors]

\* The students of the class who have active face data.
EnrolledWithFaceData == {u \in Enrolled : HasActiveFaceData(faceData, u)}

\* POST /recognize-students: faces are the encodings of the faces the detector
\* found in the photo, in its order.
RecognizeStudentsFromPhoto(faces, recognition_threshold, tieLow) ==
    /\ IF recognition_threshold < MinThreshold \/ recognition_threshold > MaxThreshold
       THEN resp' = [handler |-> "recognize_students_from_photo", status |-> 400,
                     success |-> FALSE,
                     recognition_threshold |-> recognition_threshold,
                     error |-> "Recognition threshold must be between 0.4 and 0.9"]
       ELSE IF faces = <<>>
       THEN resp' = RecognizeResponse(faces, recognition_threshold, {}, NoneRecognized)
       ELSE IF EnrolledWithFaceData = {}
       THEN resp' = [handler |-> "recognize_students_from_photo", status |-> 400,
                     success |-> FALSE,
                     error |-> "No students in this class have registered facial data",
                     faces |-> faces,
                     total_faces_detected |-> Len(faces)]
       ELSE resp' = RecognizeResponse(faces, recognition_threshold, EnrolledWithFaceData,
                                      RecognizeLoop(faces, 1, EnrolledWithFaceData,
                                                    store_down, tieLow, NoneRecognized))
    /\ UNCHANGED <<db_type, vdb, store_down, faceData>>
    /\ UNCHANGED <<threadVars, classVars>>

\* The loop over the matches of one face in match_faces_with_students_vector_db:
\* the first match of an enrolled student ends it, taken or not; <<>> when
\* there is none.
RECURSIVE FirstEnrolled(_, _)
FirstEnrolled(matches, enrolled_student_ids) ==
    IF matches = <<>> THEN <<>>
    ELSE IF Head(matches).user_id \in enrolled_student_ids THEN <<Head(matches)>>
    ELSE FirstEnrolled(Tail(matches), enrolled_student_ids)

\* m is the first match of an enrolled student, taken unless the student is
\* claimed.
FirstMatch(acc, i, raised, m) ==
    TakeMatch(acc, i, raised,
              IF m = <<>> THEN <<>>
              ELSE <<[student_id |-> m[1].user_id, confidence |-> m[1].similarity]>>)

\* The step of match_faces_with_students_vector_db for face i, whose query
\* gave r: a query that raised is printed, and the loop goes on.
MatchFace(acc, i, enrolled_student_ids, r) ==
    FirstMatch(acc, i, r.raised,
               FirstEnrolled(IF r.raised THEN <<>> ELSE r.ret, enrolled_student_ids))

\* The loop over the faces of match_faces_with_students_vector_db.
RECURSIVE MatchLoop(_, _, _, _, _, _, _)
MatchLoop(faces, i, enrolled_student_ids, tolerance, down, tieLow, acc) ==
    IF i > Len(faces) THEN acc
    ELSE MatchLoop(faces, i + 1, enrolled_student_ids, tolerance, down, tieLow,
                   MatchFace(acc, i, enrolled_student_ids,
                             QueryFace(faces[i], TopKAttendance, tolerance, down, tieLow)))

\* The place of r in a list sorted by descending confidence: after every entry
\* that is not smaller.
RECURSIVE InsertByConfidence(_, _)
InsertByConfidence(sorted, r) ==
    IF sorted = <<>> THEN <<r>>
    ELSE IF Head(sorted).confidence >= r.confidence
         THEN <<Head(sorted)>> \o InsertByConfidence(Tail(sorted), r)
         ELSE <<r>> \o sorted

\* recognized_students.sort(key=confidence, reverse=True): a stable sort.
RECURSIVE SortedByConfidence(_)
SortedByConfidence(recognized) ==
    IF recognized = <<>> THEN <<>>
    ELSE InsertByConfidence(SortedByConfidence(SubSeq(recognized, 1, Len(recognized) - 1)),
                            recognized[Len(recognized)])

\* The answer of match_faces_with_students_vector_db.
MatchResponse(faces, tolerance, out) ==
    [handler |-> "match_faces_with_students_vector_db",
     status |-> 200, success |-> TRUE, faces |-> faces,
     recognition_threshold |-> tolerance,
     recognized_students |-> SortedByConfidence(out.recognized),
     total_faces_detected |-> Len(faces),
     enrolled_ids |-> Enrolled,
     query_errors |-> out.errors]

\* match_faces_with_students_vector_db, called by POST /recognize-faces for the
\* faces of one image; without a vector database it falls back to the stored
\* encodings, of which the rows hold none.
MatchFacesWithStudentsVectorDb(faces, tolerance, tieLow) ==
    /\ resp' = MatchResponse(faces, tolerance,
                             IF db_type = "none" THEN NoneRecognized
                             ELSE MatchLoop(faces, 1, Enrolled, tolerance, store_down,
                                            tieLow, NoneRecognized))
    /\ UNCHANGED <<db_type, vdb, store_down, faceData>>
    /\ UNCHANGED <<threadVars, classVars>>

\* -------------------------------------------------------- the application

\* The images of an enrollment of student u: what each image gives, the
\* embedding of the student's face or no face.
SingleImages(u) == {FaceOf(u), NoEmb}

RecognitionBatches(u) ==
    {<<FaceOf(u), FaceOf(u)>>,
     <<FaceOf(u), FaceOf(u), NoEmb>>,
     <<FaceOf(u), NoEmb, NoEmb>>}

StudentBatches(u) ==
    {<<FaceOf(u), FaceOf(u), FaceOf(u), FaceOf(u)>>,
     <<FaceOf(u), FaceOf(u), FaceOf(u), NoEmb, NoEmb>>,
     <<FaceOf(u), FaceOf(u), NoEmb, NoEmb, NoEmb>>}

\* The photos: the faces the detector finds, at most MaxFaces of them.
RECURSIVE Photos(_)
Photos(n) ==
    IF n = 0 THEN {<<>>}
    ELSE Photos(n - 1)
         \cup {Append(p, e) : p \in {q \in Photos(n - 1) : Len(q) = n - 1}, e \in FaceEmb}

\* The thresholds of the requests.
RequestThresholds == {300, MaxThreshold}
Tolerances == {300, DefaultThreshold}

\* The backing store of the vector database becomes unreachable, or comes
\* back: while it is down, every call of an adapter raises.
Outage ==
    /\ db_type # "none"
    /\ store_down' = ~store_down
    /\ resp' = [handler |-> "none"]
    /\ UNCHANGED <<db_type, vdb, faceData>>
    /\ UNCHANGED <<threadVars, classVars>>

Init ==
    /\ db_type \in {"chroma", "faiss", "none"}
    /\ vdb = DbEmpty(db_type)
    /\ store_down = FALSE
    /\ NoClass
    /\ faceData = EmptyDict
    /\ resp = [handler |-> "init"]
    /\ NoThreads

Next ==
    \/ \E u \in Users : \E image \in SingleImages(u), dupRaises \in DupChoices(db_type, vdb, u) :
          Room(db_type, vdb) /\ UploadFaceData(u, image, dupRaises)
    \/ \E u \in Users : \E images \in RecognitionBatches(u),
                           dupRaises \in DupChoices(db_type, vdb, u) :
          Room(db_type, vdb) /\ UploadFaceForRecognition(u, images, dupRaises)
    \/ \E u \in Users : \E images \in StudentBatches(u), replace_existing \in BOOLEAN,
                           dupRaises \in DupChoices(db_type, vdb, u) :
          Room(db_type, vdb)
          /\ StudentUploadFacialData(u, images, replace_existing, dupRaises)
    \/ \E u \in Users : DeleteFaceData(u)
    \/ \E faces \in Photos(MaxFaces), t \in RequestThresholds :
          \E tieLow \in TieChoices(db_type, vdb, faces) :
          RecognizeStudentsFromPhoto(faces, t, tieLow)
    \/ \E faces \in Photos(MaxFaces) \ {<<>>}, t \in Tolerances :
          \E tieLow \in TieChoices(db_type, vdb, faces) :
          MatchFacesWithStudentsVectorDb(faces, t, tieLow)
    \/ Outage

Spec == Init /\ [][Next]_vars

\* ------------------------------------------------- the enrollments by batch

\* The batches of POST /upload-batch-with-progress.
ProgressBatches(u) ==
    StudentBatches(u) \cup {<<FaceOf(u), FaceOf(u), FaceOf(u), FaceOf(u), FaceOf(u)>>}

\* An image with the face of student u, an image that decodes and shows no
\* face, and data that is no image.
FaceImage(u) == [decodes |-> TRUE, encoding |-> FaceOf(u)]
EmptyImage == [decodes |-> TRUE, encoding |-> NoEmb]
Undecodable == [decodes |-> FALSE, encoding |-> NoEmb]

MultipleBatches(u) ==
    {<<FaceImage(u)>>,
     <<FaceImage(u), FaceImage(u)>>,
     <<FaceImage(u), Undecodable>>,
     <<FaceImage(u), EmptyImage>>,
     <<EmptyImage, Undecodable>>,
     <<Undecodable, Undecodable>>}

NextBatch ==
    \/ \E u \in Users : \E images \in StudentBatches(u), replace_existing \in BOOLEAN,
                           dupRaises \in DupChoices(db_type, vdb, u) :
          Room(db_type, vdb)
          /\ StudentUploadFacialData(u, images, replace_existing, dupRaises)
    \/ \E u \in Users : \E images \in ProgressBatches(u) : UploadBatchWithProgress(u, images)
    \/ \E u \in Users : \E images \in MultipleBatches(u),
                           dupRaises \in DupChoices(db_type, vdb, u) :
          Room(db_type, vdb) /\ UploadMultipleFaceData(u, images, dupRaises)
    \/ \E u \in Users : DeleteFaceData(u)
    \/ Outage

SpecBatch == Init /\ [][NextBatch]_vars

\* --------------------------------------------- the enrollment by orientation

\* The images of student u labelled with the orientations os, one for each.
Labelled(u, os) == [i \in 1..Len(os) |-> [orientation |-> os[i], encoding |-> FaceOf(u)]]

\* Requests: the 5 orientations; front, left and right; the 5 with two
\* images of the front; the 5 of which the last shows no face.
OrientationRequests(u) ==
    {Labelled(u, allowed_orientations),
     Labelled(u, <<"front", "left", "right">>),
     Labelled(u, <<"front", "front", "left", "right", "up", "down">>),
     Labelled(u, <<"front", "left", "right", "up">>)
        \o <<[orientation |-> "down", encoding |-> NoEmb]>>}

NextOrientations ==
    \/ \E u \in Users : \E items \in OrientationRequests(u),
                           dupRaises \in DupChoices(db_type, vdb, u) :
          Room(db_type, vdb) /\ UploadFaceDataWithOrientations(u, items, dupRaises)
    \/ \E u \in Users : DeleteFaceData(u)
    \/ Outage

SpecOrientations == Init /\ [][NextOrientations]_vars

\* ------------------------------------------------ the life of a student's data

NextLifecycle ==
    \/ \E u \in Users : \E images \in StudentBatches(u), replace_existing \in BOOLEAN,
                           dupRaises \in DupChoices(db_type, vdb, u) :
          Room(db_type, vdb)
          /\ StudentUploadFacialData(u, images, replace_existing, dupRaises)
    \/ \E u \in Users : \E image \in SingleImages(u), dupRaises \in DupChoices(db_type, vdb, u) :
          Room(db_type, vdb) /\ UploadFaceData(u, image, dupRaises)
    \/ \E u \in Users : DeleteStudentFacialData(u)
    \/ \E u \in Users : GetStudentFacialStatus(u)
    \/ Outage

SpecLifecycle == Init /\ [][NextLifecycle]_vars

\* ------------------------------------------------- the class and its session
\* class_enrollments holds the rows [student_id, is_active] of the one class,
\* attendance_records the rows [student_id, status, recognition_method] of its
\* one session, both in the order of their insertion.

\* The indexes of the rows of a table that are the student's.
RowsOf(rows, u) == {i \in 1..Len(rows) : rows[i].student_id = u}

\* query.filter_by(student_id=...).first(): the first row, as a set.
FirstRowOf(rows, u) == {i \in RowsOf(rows, u) : \A j \in RowsOf(rows, u) : i <= j}

\* ClassEnrollment.query.filter_by(class_id=..., is_active=True).count()
ActiveCount(rows) == Cardinality({i \in 1..Len(rows) : rows[i].is_active})

\* The student has an active enrollment in the class.
ActivelyEnrolled(rows, u) == \E i \in RowsOf(rows, u) : rows[i].is_active

\* The answer of a handler of the class that changes nothing.
ClassRefuses(handler, u, status) ==
    /\ resp' = [handler |-> handler, user |-> u, status |-> status]
    /\ UNCHANGED <<class_enrollments, student_count>>

\* The rows after join_class: the inactive row of the student is
\* reactivated, or a row is inserted.
Joined(rows, u) ==
    IF RowsOf(rows, u) # {}
    THEN [i \in 1..Len(rows) |->
             IF i \in FirstRowOf(rows, u) THEN [rows[i] EXCEPT !.is_active = TRUE]
             ELSE rows[i]]
    ELSE Append(rows, [student_id |-> u, is_active |-> TRUE])

\* POST /join: a student with active face data joins by the code of the class;
\* update_student_count counts the active rows, the new one among them.
JoinClass(u) ==
    /\ IF ~HasActiveFaceData(faceData, u)
       THEN ClassRefuses("join_class", u, 403)
       ELSE IF \E i \in FirstRowOf(class_enrollments, u) : class_enrollments[i].is_active
       THEN ClassRefuses("join_class", u, 409)
       ELSE /\ class_enrollments' = Joined(class_enrollments, u)
            /\ student_count' = ActiveCount(Joined(class_enrollments, u))
            /\ resp' = [handler |-> "join_class", user |-> u, status |-> 200,
                        rejoined |-> RowsOf(class_enrollments, u) # {}]
    /\ UNCHANGED <<attendance_records, session>>
    /\ UNCHANGED <<db_type, vdb, store_down, faceData>>
    /\ UNCHANGED threadVars

\* The rows after leave_class: the first active row of the student is
\* deactivated.
Left(rows, u) ==
    [i \in 1..Len(rows) |->
        IF /\ i \in RowsOf(rows, u)
           /\ rows[i].is_active
           /\ \A j \in RowsOf(rows, u) : rows[j].is_active => i <= j
        THEN [rows[i] EXCEPT !.is_active = FALSE]
        ELSE rows[i]]

\* POST /<class_id>/leave: the enrollment is deactivated and committed.
LeaveClass(u) ==
    /\ IF ~ActivelyEnrolled(class_enrollments, u)
       THEN ClassRefuses("leave_class", u, 404)
       ELSE /\ class_enrollments' = Left(class_enrollments, u)
            /\ UNCHANGED student_count
            /\ resp' = [handler |-> "leave_class", user |-> u, status |-> 200]
    /\ UNCHANGED <<attendance_records, session>>
    /\ UNCHANGED <<db_type, vdb, store_down, faceData>>
    /\ UNCHANGED threadVars

\* What the loop of mark_attendance keeps: the rows of the session, those it
\* added among them (the session flushes them before each query), and its
\* three lists.
NoneMarked(records) ==
    [records |-> records, marked_students |-> <<>>, already_marked |-> <<>>,
     invalid_students |-> <<>>]

\* A step that does not look for the record of the student.
MarkStudentAgain(acc, student_id, recognition_method) ==
    IF ~ActivelyEnrolled(class_enrollments, student_id)
    THEN [acc EXCEPT !.invalid_students = Append(@, student_id)]
    ELSE [acc EXCEPT !.records = Append(@, [student_id |-> student_id,
                                            status |-> "present",
                                            recognition_method |-> recognition_method]),
                     !.marked_students = Append(@, student_id)]

\* The step of the loop for student_id.
MarkStudent(acc, student_id, recognition_method) ==
    IF ~ActivelyEnrolled(class_enrollments, student_id)
    THEN [acc EXCEPT !.invalid_students = Append(@, student_id)]
    ELSE IF RowsOf(acc.records, student_id) # {}
    THEN [acc EXCEPT !.already_marked = Append(@, student_id)]
    ELSE [acc EXCEPT !.records = Append(@, [student_id |-> student_id,
                                            status |-> "present",
                                            recognition_method |-> recognition_method]),
                     !.marked_students = Append(@, student_id)]

RECURSIVE MarkLoop(_, _, _)
MarkLoop(student_ids, recognition_method, acc) ==
    IF student_ids = <<>> THEN acc
    ELSE MarkLoop(Tail(student_ids), recognition_method,
                  MarkStudent(acc, Head(student_ids), recognition_method))

\* AttendanceSession.update_attendance_counts
update_attendance_counts(records) ==
    [present_count  |-> Cardinality({i \in 1..Len(records) : records[i].status = "present"}),
     absent_count   |-> Cardinality({i \in 1..Len(records) : records[i].status = "absent"}),
     total_students |-> ActiveCount(class_enrollments)]

\* The end of mark_attendance: the counts, the commit, the answer.
MarkEnd(student_ids, recognition_method, out) ==
    /\ attendance_records' = out.records
    /\ session' = update_attendance_counts(out.records)
    /\ resp' = [handler |-> "mark_attendance", status |-> 200,
                student_ids |-> student_ids,
                recognition_method |-> recognition_method,
                marked_students |-> out.marked_students,
                already_marked |-> out.already_marked,
                invalid_students |-> out.invalid_students]

\* POST /mark-attendance by the teacher of the class, for its session.
MarkAttendance(student_ids, recognition_method) ==
    /\ IF student_ids = <<>>
       THEN /\ resp' = [handler |-> "mark_attendance", status |-> 400]
            /\ UNCHANGED <<attendance_records, session>>
       ELSE MarkEnd(student_ids, recognition_method,
                    MarkLoop(student_ids, recognition_method,
                             NoneMarked(attendance_records)))
    /\ UNCHANGED <<class_enrollments, student_count>>
    /\ UNCHANGED <<db_type, vdb, store_down, faceData>>
    /\ UNCHANGED threadVars

\* The lists of student ids of the requests, at most MaxMarked long.
RECURSIVE StudentIds(_)
StudentIds(n) ==
    IF n = 0 THEN {<<>>}
    ELSE StudentIds(n - 1)
         \cup {Append(ids, u) : ids \in {l \in StudentIds(n - 1) : Len(l) = n - 1},
                                u \in Users}

RecognitionMethods == {"manual", "ai_face"}

InitClass ==
    /\ db_type = "none"
    /\ vdb = DbEmpty(db_type)
    /\ store_down = FALSE
    /\ NoClass
    /\ faceData = EmptyDict
    /\ resp = [handler |-> "init"]
    /\ NoThreads

NextClass ==
    \/ \E u \in Users : UploadFaceData(u, FaceOf(u), FALSE)
    \/ \E u \in Users : JoinClass(u)
    \/ \E u \in Users : LeaveClass(u)
    \/ \E student_ids \in StudentIds(MaxMarked), recognition_method \in RecognitionMethods :
          MarkAttendance(student_ids, recognition_method)

SpecClass == InitClass /\ [][NextClass]_vars

\* --------------------------------------------- the two models of the faces
\* An image is what each model would find in it: [arcface, legacy], each the
\* embedding of the face or NoEmb; a photo is the faces each would find.

\* ARCFACE_AVAILABLE = initialize_arcface() is not None, at import.
ARCFACE_AVAILABLE == arcface_model # NoModel

ArcfaceOf(u) == IF u = 1 THEN <<5, 0, 0>> ELSE <<4, 3, 0>>

\* extract_face_encoding: ArcFace when it is available and finds a face, the
\* legacy face_recognition otherwise.
extract_face_encoding(image) ==
    IF ARCFACE_AVAILABLE /\ image.arcface # NoEmb THEN image.arcface ELSE image.legacy

ExtractAll(images) == [i \in 1..Len(images) |-> extract_face_encoding(images[i])]

\* recognize_students_from_photo: detect_faces_batch when ArcFace is available,
\* the legacy face_recognition when that gave no face.
DetectFaces(photo) ==
    IF ARCFACE_AVAILABLE /\ photo.arcface # <<>> THEN photo.arcface ELSE photo.legacy

\* attendance.extract_faces_from_image: the legacy face_recognition.
extract_faces_from_image(photo) == photo.legacy

\* An image of student u that both models read, one that only the legacy
\* model reads, and one with no face.
BothRead(u) == [arcface |-> ArcfaceOf(u), legacy |-> FaceOf(u)]
LegacyReads(u) == [arcface |-> NoEmb, legacy |-> FaceOf(u)]
NoFace == [arcface |-> NoEmb, legacy |-> NoEmb]

ImagesOf(u) == {BothRead(u), LegacyReads(u), NoFace}

BatchesOf(u) ==
    {<<BothRead(u), BothRead(u), BothRead(u)>>,
     <<BothRead(u), BothRead(u), LegacyReads(u)>>,
     <<BothRead(u), NoFace, NoFace>>}

\* The photos of one student's face.
PhotosOf(u) ==
    {[arcface |-> <<ArcfaceOf(u)>>, legacy |-> <<FaceOf(u)>>],
     [arcface |-> <<>>, legacy |-> <<FaceOf(u)>>],
     [arcface |-> <<>>, legacy |-> <<>>]}

InitFamilies ==
    /\ db_type \in {"chroma", "faiss"}
    /\ vdb = DbEmpty(db_type)
    /\ store_down = FALSE
    /\ NoClass
    /\ faceData = EmptyDict
    /\ resp = [handler |-> "init"]
    /\ \/ NoThreads
       \/ arcface_model = <<1>> /\ loads = 1 /\ threads = <<>>

NextFamilies ==
    \/ \E u \in Users : \E image \in ImagesOf(u), dupRaises \in DupChoices(db_type, vdb, u) :
          Room(db_type, vdb) /\ UploadFaceData(u, extract_face_encoding(image), dupRaises)
    \/ \E u \in Users : \E images \in BatchesOf(u),
                           dupRaises \in DupChoices(db_type, vdb, u) :
          Room(db_type, vdb) /\ UploadFaceForRecognition(u, ExtractAll(images), dupRaises)
    \/ \E u \in Users : \E photo \in PhotosOf(u), t \in RequestThresholds :
          RecognizeStudentsFromPhoto(DetectFaces(photo), t, TRUE)
    \/ \E u \in Users : \E photo \in PhotosOf(u), t \in Tolerances :
          /\ extract_faces_from_image(photo) # <<>>
          /\ MatchFacesWithStudentsVectorDb(extract_faces_from_image(photo), t, TRUE)

SpecFamilies == InitFamilies /\ [][NextFamilies]_vars

\* ------------------------------------------------- the length of an embedding
\* Here an image is what the libraries give for it, before the code touches it:
\* [arcface: the embedding InsightFace gives, legacy: the encoding
\* face_recognition gives], of any length, NoEmb when the library finds no face.

\* arcface_service.extract_arcface_embedding: the embedding of the largest
\* face, divided by its norm when that is not 0.
extract_arcface_embedding(embedding) ==
    IF embedding = NoEmb THEN NoEmb
    ELSE IF Norm(embedding) > 0 THEN Normalize(embedding)
    ELSE embedding

\* What extract_face_encoding returns for an image: the ArcFace embedding as
\* extract_arcface_embedding gives it, the legacy encoding as the library
\* gives it.
ExtractRaw(image) ==
    extract_face_encoding([arcface |-> extract_arcface_embedding(image.arcface),
                           legacy  |-> image.legacy])

\* A vector of twice the length.
Twice(e) == [i \in 1..Len(e) |-> 2 * e[i]]

\* Images of student u as the libraries read them: by both, by the legacy
\* model only, by neither.
RawImagesOf(u) ==
    {[arcface |-> Twice(ArcfaceOf(u)), legacy |-> Twice(FaceOf(u))],
     [arcface |-> NoEmb, legacy |-> Twice(FaceOf(u))],
     NoFace}

\* n times the same image.
Repeated(image, n) == [i \in 1..n |-> image]

NextRaw ==
    \/ \E u \in Users : \E image \in RawImagesOf(u), dupRaises \in DupChoices(db_type, vdb, u) :
          Room(db_type, vdb) /\ UploadFaceData(u, ExtractRaw(image), dupRaises)
    \/ \E u \in Users : \E image \in RawImagesOf(u), dupRaises \in DupChoices(db_type, vdb, u) :
          Room(db_type, vdb)
          /\ UploadFaceForRecognition(u, Repeated(ExtractRaw(image), 3), dupRaises)
    \/ \E u \in Users : \E image \in RawImagesOf(u), n \in 1..2,
                           dupRaises \in DupChoices(db_type, vdb, u) :
          Room(db_type, vdb)
          /\ UploadMultipleFaceData(u, Repeated([decodes |-> TRUE,
                                                 encoding |-> ExtractRaw(image)], n)
                                        \o Repeated(Undecodable, 2 - n),
                                    dupRaises)
    \/ \E u \in Users : DeleteFaceData(u)

SpecRaw == InitFamilies /\ [][NextRaw]_vars

\* ------------------------------------------------------ the adapters, called

\* The metadata a caller passes (None is the empty dictionary).
MetaInputs == {EmptyDict, [upload_method |-> "single_image"]}

\* <<top_k, threshold>> of the searches.
SearchInputs == {<<1, 0>>, <<2, 600>>}

InitStore ==
    /\ db_type \in {"chroma", "faiss", "firestore"}
    /\ vdb = DbEmpty(db_type)
    /\ store_down = FALSE
    /\ NoClass
    /\ faceData = EmptyDict
    /\ resp = [op |-> "init"]
    /\ NoThreads

StoreAdd(u, e, m, dupRaises) ==
    /\ Room(db_type, vdb)
    /\ LET r == add_encoding(db_type, vdb, u, e, m, dupRaises)
       IN  /\ vdb' = r.db
           /\ resp' = [op |-> "add", user |-> u, enc |-> e, meta |-> m,
                       ret |-> r.ret, raised |-> r.raised]
    /\ UNCHANGED <<db_type, store_down, faceData>>
    /\ UNCHANGED <<threadVars, classVars>>

StoreUpdate(u, e, m) ==
    /\ Room(db_type, vdb)
    /\ LET r == update_encoding(db_type, vdb, u, e, m)
       IN  /\ vdb' = r.db
           /\ resp' = [op |-> "update", user |-> u, enc |-> e, meta |-> m,
                       ret |-> r.ret, raised |-> r.raised]
    /\ UNCHANGED <<db_type, store_down, faceData>>
    /\ UNCHANGED <<threadVars, classVars>>

StoreDelete(u) ==
    /\ LET r == delete_encoding(db_type, vdb, u)
       IN  /\ vdb' = r.db
           /\ resp' = [op |-> "delete", user |-> u, ret |-> r.ret, raised |-> r.raised]
    /\ UNCHANGED <<db_type, store_down, faceData>>
    /\ UNCHANGED <<threadVars, classVars>>

StoreGet(u) ==
    /\ LET r == get_encoding(db_type, vdb, u)
       IN  /\ vdb' = r.db
           /\ resp' = [op |-> "get", user |-> u, ret |-> r.ret, raised |-> r.raised]
    /\ UNCHANGED <<db_type, store_down, faceData>>
    /\ UNCHANGED <<threadVars, classVars>>

StoreSearch(q, top_k, threshold, tieLow) ==
    /\ LET r == search_similar(db_type, vdb, q, top_k, threshold, tieLow)
       IN  /\ vdb' = r.db
           /\ resp' = [op |-> "search", enc |-> q, top_k |-> top_k,
                       threshold |-> threshold, ret |-> r.ret, raised |-> r.raised]
    /\ UNCHANGED <<db_type, store_down, faceData>>
    /\ UNCHANGED <<threadVars, classVars>>

NextStore ==
    \/ \E u \in Users, e \in StoreEmb, m \in MetaInputs :
          \E d \in DupChoices(db_type, vdb, u) :
          StoreAdd(u, e, m, d)
    \/ \E u \in Users, e \in StoreEmb, m \in MetaInputs : StoreUpdate(u, e, m)
    \/ \E u \in Users : StoreDelete(u)
    \/ \E u \in Users : StoreGet(u)
    \/ \E q \in StoreEmb, kt \in SearchInputs :
          \E tie \in TieChoices(db_type, vdb, <<q>>) :
          StoreSearch(q, kt[1], kt[2], tie)

SpecStore == InitStore /\ [][NextStore]_vars

\* ------------------------------------------------------ the store's statistics

\* 'encoding_dimension': 128 of VectorDBService.get_stats, the length of a
\* legacy encoding.
StatsDimension == 2

\* get_stats: VectorDBService counts collection.count() or index.ntotal and
\* reports the dimension 128; FirestoreVectorDB counts the documents and
\* reports the length of the first embedding it meets, 0 when there is none.
get_stats(t, db) ==
    CASE t = "chroma" ->
            [total_encodings |-> Cardinality(DOMAIN db), encoding_dimension |-> StatsDimension]
      [] t = "faiss" ->
            [total_encodings |-> Len(db.index), encoding_dimension |-> StatsDimension]
      [] t = "firestore" ->
            [total_encodings |-> Cardinality(DOMAIN db),
             encoding_dimension |->
                IF DOMAIN db = {} THEN 0
                ELSE Len(db[Ascending(DOMAIN db)[1]].embedding)]

StoreStats ==
    /\ resp' = [op |-> "stats", stats |-> get_stats(db_type, vdb)]
    /\ UNCHANGED <<db_type, vdb, store_down, faceData>>
    /\ UNCHANGED <<threadVars, classVars>>

\* What the enrollments hand to the store: encodings of either model.
StatsEmb == FaceEmb \cup {ArcfaceOf(u) : u \in Users}

NextStats ==
    \/ \E u \in Users, e \in StatsEmb, m \in MetaInputs :
          \E d \in DupChoices(db_type, vdb, u) :
          StoreAdd(u, e, m, d)
    \/ \E u \in Users, e \in StatsEmb, m \in MetaInputs : StoreUpdate(u, e, m)
    \/ \E u \in Users : StoreDelete(u)
    \/ StoreStats

SpecStats == InitStore /\ [][NextStats]_vars

\* ------------------------------------------------- the three stores, side by side
\* vdb holds a store of each kind; every write is made to the three of them and
\* every search asks the three of them.

Backends == {"chroma", "faiss", "firestore"}

InitBackends ==
    /\ db_type = "all"
    /\ vdb = [t \in Backends |-> DbEmpty(t)]
    /\ store_down = FALSE
    /\ NoClass
    /\ faceData = EmptyDict
    /\ resp = [op |-> "init"]
    /\ NoThreads

\* add_face_encoding for a user the stores do not hold.
BackendsAdd(u, e, m) ==
    /\ u \notin DOMAIN vdb["firestore"]
    /\ Room("faiss", vdb["faiss"])
    /\ vdb' = [t \in Backends |-> add_encoding(t, vdb[t], u, e, m, FALSE).db]
    /\ resp' = [op |-> "add", user |-> u, enc |-> e]
    /\ UNCHANGED <<db_type, store_down, faceData>>
    /\ UNCHANGED <<threadVars, classVars>>

BackendsDelete(u) ==
    /\ vdb' = [t \in Backends |-> delete_encoding(t, vdb[t], u).db]
    /\ resp' = [op |-> "delete", user |-> u]
    /\ UNCHANGED <<db_type, store_down, faceData>>
    /\ UNCHANGED <<threadVars, classVars>>

\* user_id and similarity of the matches an adapter returned.
Identified(matches) ==
    [i \in 1..Len(matches) |-> <<matches[i].user_id, matches[i].similarity>>]

\* find_similar_faces with one query, asked of each store.
BackendsSearch(q, top_k, threshold, tieChroma, tieFaiss) ==
    /\ resp' = [op |-> "search", enc |-> q, top_k |-> top_k, threshold |-> threshold,
                stored |-> DOMAIN vdb["firestore"],
                chroma |-> Identified(ChromaSearch(vdb["chroma"], q, top_k, threshold,
                                                   tieChroma).ret),
                faiss |-> Identified(FaissSearch(vdb["faiss"], q, top_k, threshold,
                                                 tieFaiss).ret),
                firestore |-> Identified(FirestoreSearch(vdb["firestore"], q, top_k,
                                                         threshold).ret)]
    /\ UNCHANGED <<db_type, vdb, store_down, faceData>>
    /\ UNCHANGED <<threadVars, classVars>>

NextBackends ==
    \/ \E u \in Users, e \in FaceEmb, m \in MetaInputs : BackendsAdd(u, e, m)
    \/ \E u \in Users : BackendsDelete(u)
    \/ \E q \in FaceEmb, kt \in SearchInputs :
          \E tieChroma \in TieChoices("chroma", vdb["chroma"], <<q>>),
             tieFaiss \in TieChoices("faiss", vdb["faiss"], <<q>>) :
          BackendsSearch(q, kt[1], kt[2], tieChroma, tieFaiss)

SpecBackends == InitBackends /\ [][NextBackends]_vars

\* ------------------------------------------- arcface_service: the model
\* Each thread is at a line of get_arcface_model or initialize_arcface; a
\* thread's record holds its position (pc), the function it entered by (entry)
\* and the value it carries (app: the local of initialize_arcface, then the
\* value returned to get_arcface_model).

Threads == 1..MaxThreads

Idle == [pc |-> "idle", entry |-> None, app |-> NoModel]

\* initialize_arcface returns value to the thread's caller.
ReturnFromInitialize(t, value) ==
    IF threads[t].entry = "get_arcface_model"
    THEN [threads EXCEPT ![t].pc = "get_assign", ![t].app = value]
    ELSE [threads EXCEPT ![t] = Idle]

\* A thread calls get_arcface_model or initialize_arcface.
CallArcface(t, entry) ==
    /\ threads[t].pc = "idle"
    /\ threads' = [threads EXCEPT ![t].entry = entry,
                                  ![t].pc = IF entry = "get_arcface_model"
                                            THEN "get_check" ELSE "init_check"]
    /\ UNCHANGED <<arcface_model, loads>>
    /\ UNCHANGED <<appVars, classVars>>

\* get_arcface_model: if _arcface_model is None, call initialize_arcface;
\* else return it.
GetCheck(t) ==
    /\ threads[t].pc = "get_check"
    /\ threads' = IF arcface_model = NoModel
                  THEN [threads EXCEPT ![t].pc = "init_check"]
                  ELSE [threads EXCEPT ![t] = Idle]
    /\ UNCHANGED <<arcface_model, loads>>
    /\ UNCHANGED <<appVars, classVars>>

\* initialize_arcface: if _arcface_model is not None, return it.
InitCheck(t) ==
    /\ threads[t].pc = "init_check"
    /\ threads' = IF arcface_model # NoModel
                  THEN ReturnFromInitialize(t, arcface_model)
                  ELSE [threads EXCEPT ![t].pc = "construct"]
    /\ UNCHANGED <<arcface_model, loads>>
    /\ UNCHANGED <<appVars, classVars>>

\* app = FaceAnalysis(...); app.prepare(...): a model is constructed
\* (loaded), or an exception is caught and None is returned.
Construct(t, loaded) ==
    /\ threads[t].pc = "construct"
    /\ IF loaded
       THEN /\ loads < MaxLoads
            /\ loads' = loads + 1
            /\ threads' = [threads EXCEPT ![t].pc = "assign", ![t].app = <<loads + 1>>]
       ELSE /\ loads' = loads
            /\ threads' = ReturnFromInitialize(t, NoModel)
    /\ UNCHANGED arcface_model
    /\ UNCHANGED <<appVars, classVars>>

\* _arcface_model = app; return _arcface_model
Assign(t) ==
    /\ threads[t].pc = "assign"
    /\ arcface_model' = threads[t].app
    /\ threads' = ReturnFromInitialize(t, threads[t].app)
    /\ UNCHANGED loads
    /\ UNCHANGED <<appVars, classVars>>

\* get_arcface_model: _arcface_model = initialize_arcface(); return it.
GetAssign(t) ==
    /\ threads[t].pc = "get_assign"
    /\ arcface_model' = threads[t].app
    /\ threads' = [threads EXCEPT ![t] = Idle]
    /\ UNCHANGED loads
    /\ UNCHANGED <<appVars, classVars>>

InitArcface ==
    /\ db_type = "none"
    /\ vdb = DbEmpty(db_type)
    /\ store_down = FALSE
    /\ NoClass
    /\ faceData = EmptyDict
    /\ resp = [handler |-> "init"]
    /\ arcface_model = NoModel
    /\ loads = 0
    /\ threads = [t \in Threads |-> Idle]

NextArcface ==
    \/ \E t \in Threads, entry \in {"get_arcface_model", "initialize_arcface"} :
          CallArcface(t, entry)
    \/ \E t \in Threads : GetCheck(t)
    \/ \E t \in Threads : InitCheck(t)
    \/ \E t \in Threads, loaded \in BOOLEAN : Construct(t, loaded)
    \/ \E t \in Threads : Assign(t)
    \/ \E t \in Threads : GetAssign(t)

SpecArcface == InitArcface /\ [][NextArcface]_vars

\* ------------------------------- FAISSVectorDB: a mutation, line by line
\* One thread at a time runs add_encoding, update_encoding or delete_encoding
\* of the FAISS adapter, a statement at a step; the other threads search
\* between its steps.  The adapter takes no lock.

Writing == \E t \in Threads : threads[t].pc # "idle"

IdleWriter == [pc |-> "idle"]

\* A thread enters one of the three methods.
BeginMutation(t, op, u, e, m) ==
    /\ ~Writing
    /\ op # "delete" => Room(db_type, vdb)
    /\ threads' = [threads EXCEPT ![t] =
           [pc |-> CASE op = "add"    -> "index_add"
                     [] op = "update" -> "update_check"
                     [] op = "delete" -> "delete_check",
            op |-> op, user |-> u, enc |-> e, meta |-> m, index_id |-> 0,
            was_live |-> u \in DOMAIN vdb.user_id_to_index]]
    /\ UNCHANGED <<arcface_model, loads>>
    /\ UNCHANGED <<appVars, classVars>>

\* update_encoding: if user_id in self.user_id_to_index: self.delete_encoding(user_id)
UpdateCheck(t) ==
    /\ threads[t].pc = "update_check"
    /\ threads' = [threads EXCEPT ![t].pc =
           IF threads[t].user \in DOMAIN vdb.user_id_to_index
           THEN "del_mapping" ELSE "index_add"]
    /\ UNCHANGED <<arcface_model, loads>>
    /\ UNCHANGED <<appVars, classVars>>

\* delete_encoding: if user_id not in self.user_id_to_index: return False
DeleteCheck(t) ==
    /\ threads[t].pc = "delete_check"
    /\ threads' = IF threads[t].user \in DOMAIN vdb.user_id_to_index
                  THEN [threads EXCEPT ![t].pc = "del_mapping"]
                  ELSE [threads EXCEPT ![t] = IdleWriter]
    /\ UNCHANGED <<arcface_model, loads>>
    /\ UNCHANGED <<appVars, classVars>>

\* del self.user_id_to_index[user_id]
DelMapping(t) ==
    /\ threads[t].pc = "del_mapping"
    /\ vdb' = [vdb EXCEPT !.user_id_to_index = Without(@, threads[t].user)]
    /\ threads' = [threads EXCEPT ![t].pc = "del_metadata"]
    /\ UNCHANGED <<arcface_model, loads>>
    /\ UNCHANGED <<db_type, store_down, faceData, resp>>
    /\ UNCHANGED classVars

\* del self.metadata[str(user_id)]; return True
DelMetadata(t) ==
    /\ threads[t].pc = "del_metadata"
    /\ vdb' = [vdb EXCEPT !.metadata = Without(@, threads[t].user)]
    /\ threads' = IF threads[t].op = "update"
                  THEN [threads EXCEPT ![t].pc = "index_add"]
                  ELSE [threads EXCEPT ![t] = IdleWriter]
    /\ UNCHANGED <<arcface_model, loads>>
    /\ UNCHANGED <<db_type, store_down, faceData, resp>>
    /\ UNCHANGED classVars

\* add_encoding: index_id = self.index.ntotal; self.index.add(encoding_normalized)
IndexAdd(t) ==
    /\ threads[t].pc = "index_add"
    /\ vdb' = [vdb EXCEPT !.index = Append(@, Normalize(threads[t].enc))]
    /\ threads' = [threads EXCEPT ![t].pc = "set_mapping",
                                  ![t].index_id = Len(vdb.index)]
    /\ UNCHANGED <<arcface_model, loads>>
    /\ UNCHANGED <<db_type, store_down, faceData, resp>>
    /\ UNCHANGED classVars

\* self.user_id_to_index[user_id] = index_id
SetMapping(t) ==
    /\ threads[t].pc = "set_mapping"
    /\ vdb' = [vdb EXCEPT !.user_id_to_index =
                              With(@, threads[t].user, threads[t].index_id)]
    /\ threads' = [threads EXCEPT ![t].pc = "set_metadata"]
    /\ UNCHANGED <<arcface_model, loads>>
    /\ UNCHANGED <<db_type, store_down, faceData, resp>>
    /\ UNCHANGED classVars

\* self.metadata[str(user_id)] = {...}; return
SetMetadata(t) ==
    /\ threads[t].pc = "set_metadata"
    /\ vdb' = [vdb EXCEPT !.metadata =
                  With(@, threads[t].user,
                       Merge([user_id |-> threads[t].user,
                              index_id |-> threads[t].index_id,
                              encoding_dimension |-> Len(threads[t].enc),
                              created_at |-> "now"], threads[t].meta))]
    /\ threads' = [threads EXCEPT ![t] = IdleWriter]
    /\ UNCHANGED <<arcface_model, loads>>
    /\ UNCHANGED <<db_type, store_down, faceData, resp>>
    /\ UNCHANGED classVars

InitConcurrent ==
    /\ db_type = "faiss"
    /\ vdb = DbEmpty(db_type)
    /\ store_down = FALSE
    /\ NoClass
    /\ faceData = EmptyDict
    /\ resp = [op |-> "init"]
    /\ arcface_model = NoModel
    /\ loads = 0
    /\ threads = [t \in Threads |-> IdleWriter]

NextConcurrent ==
    \/ \E t \in Threads, op \in {"add", "update"}, u \in Users,
          e \in FaceEmb, m \in MetaInputs :
          BeginMutation(t, op, u, e, m)
    \/ \E t \in Threads, u \in Users :
          BeginMutation(t, "delete", u, NoEmb, EmptyDict)
    \/ \E t \in Threads : UpdateCheck(t)
    \/ \E t \in Threads : DeleteCheck(t)
    \/ \E t \in Threads : DelMapping(t)
    \/ \E t \in Threads : DelMetadata(t)
    \/ \E t \in Threads : IndexAdd(t)
    \/ \E t \in Threads : SetMapping(t)
    \/ \E t \in Threads : SetMetadata(t)
    \/ \E q \in FaceEmb :
          \E tie \in TieChoices(db_type, vdb, <<q>>) :
          StoreSearch(q, TopKAttendance, 0, tie)

SpecConcurrent == InitConcurrent /\ [][NextConcurrent]_vars

\* ------------------------------------------------- similarity of two vectors
\* The two functions that compare two embeddings directly, called with
\* embeddings of the legacy model and of the upgraded model.

LegacyEmb == {<<5, 0>>, <<4, 3>>, <<3, 4>>, <<0, 5>>, <<8, 6>>, <<0, 0>>}
ArcfaceEmb == {<<5, 0, 0>>, <<4, 3, 0>>, <<0, 0, 0>>}

ComputeSimilarity(embedding1, embedding2) ==
    /\ resp' = [op |-> "compute_similarity", a |-> embedding1, b |-> embedding2,
                result |-> compute_similarity(embedding1, embedding2)]
    /\ UNCHANGED <<db_type, vdb, store_down, faceData>>
    /\ UNCHANGED <<threadVars, classVars>>

FirestoreCosineSimilarity(a, b) ==
    /\ resp' = [op |-> "_cosine_similarity", a |-> a, b |-> b,
                result |-> cosine_similarity(a, b)]
    /\ UNCHANGED <<db_type, vdb, store_down, faceData>>
    /\ UNCHANGED <<threadVars, classVars>>

InitSimilarity ==
    /\ db_type = "none"
    /\ vdb = DbEmpty(db_type)
    /\ store_down = FALSE
    /\ NoClass
    /\ faceData = EmptyDict
    /\ resp = [op |-> "init"]
    /\ NoThreads

NextSimilarity ==
    \/ \E a \in ArcfaceEmb \cup LegacyEmb, b \in ArcfaceEmb \cup LegacyEmb :
          ComputeSimilarity(a, b)
    \/ \E a \in ArcfaceEmb \cup LegacyEmb, b \in ArcfaceEmb \cup LegacyEmb :
          FirestoreCosineSimilarity(a, b)

SpecSimilarity == InitSimilarity /\ [][NextSimilarity]_vars

\* ------------------------------------------------------ claims on the index

\* The identities the index answers for: get_encoding returns an entry.
Live(t, db) == {u \in Users : get_encoding(t, db, u).ret # EmptyDict}

\* The embedding the index holds for a live identity.
LiveEmbedding(t, db, u) ==
    IF t = "faiss" THEN db.index[db.user_id_to_index[u] + 1] ELSE db[u].embedding

\* The last call was an upsert that reported success.
Upserted ==
    /\ resp.op \in {"add", "update"}
    /\ ~resp.raised
    /\ (resp.op = "update" => resp.ret = TRUE)

\* The upsert of resp, made once more on store db.
Repeat(db, dupRaises) ==
    IF resp.op = "add"
    THEN add_encoding(db_type, db, resp.user, resp.enc, resp.meta, dupRaises)
    ELSE update_encoding(db_type, db, resp.user, resp.enc, resp.meta)

\* C6: upsert is idempotent per identity: once an upsert (add_encoding or
\* update_encoding) of an identity has succeeded, the same call made again
\* leaves the store exactly as it is, with one live entry for the identity, on
\* the Chroma, FAISS and Firestore adapters.
C6_UpsertIdempotent ==
    Upserted =>
        \A d \in BOOLEAN :
            /\ Repeat(vdb, d).db = vdb
            /\ resp.user \in Live(db_type, Repeat(vdb, d).db)

\* C7: self-similarity after any history: for a live identity whose stored
\* embedding no other live identity shares, query(E, top_k = 1,
\* min_similarity = 0) with its stored embedding E returns that identity first.
C7_SelfSimilarity ==
    \A u \in Live(db_type, vdb) :
        LET E == LiveEmbedding(db_type, vdb, u)
        IN  (\A w \in Live(db_type, vdb) \ {u} :
                Normalize(LiveEmbedding(db_type, vdb, w)) # Normalize(E))
            => \A tie \in BOOLEAN :
                 LET r == search_similar(db_type, vdb, E, 1, 0, tie)
                 IN  /\ ~r.raised
                     /\ Len(r.ret) >= 1
                     /\ r.ret[1].user_id = u

\* C8: fetch after upsert: once an upsert of an identity has succeeded,
\* get_encoding of that identity returns a record that holds an embedding
\* cosine-equal to the one that was passed, on every backing store.
C8_FetchAfterUpsert ==
    Upserted =>
        LET got == get_encoding(db_type, vdb, resp.user).ret
        IN  /\ "encoding" \in DOMAIN got
            /\ CosineSimilarity(got.encoding, resp.enc) = 1000

\* What the adapter's contract says of one result of a query.
QueryResultOk(db, ret, top_k, threshold) ==
    /\ Len(ret) <= top_k
    /\ \A i \in 1..Len(ret) :
          /\ ret[i].similarity >= threshold
          /\ ret[i].user_id \in Live(db_type, db)
    /\ \A i \in 1..(Len(ret) - 1) : ret[i].similarity >= ret[i + 1].similarity

\* C9: query(embedding, top_k, min_similarity) returns at most top_k entries,
\* in descending order of similarity, each of a live identity and of a
\* similarity at or above min_similarity, on every backing store and after any
\* sequence of upserts and removes.
C9_QueryContract ==
    \A q \in StoreEmb, top_k \in {1, 2, 3}, threshold \in {0, 600, 900, 1000},
       tie \in BOOLEAN :
        LET r == search_similar(db_type, vdb, q, top_k, threshold, tie)
        IN  ~r.raised /\ QueryResultOk(vdb, r.ret, top_k, threshold)

\* A query with top_k = 2 and min_similarity = 0.6 has answered with two
\* entries, the more similar one first.
C9_Witness ==
    /\ resp.op = "search"
    /\ ~resp.raised
    /\ resp.top_k = 2
    /\ resp.threshold = 600
    /\ Len(resp.ret) = 2
    /\ resp.ret[1].similarity > resp.ret[2].similarity

\* The metadata keys an adapter writes by itself, whatever the caller passes.
AdapterKeys == {"user_id", "encoding_dimension", "index_id", "created_at", "updated_at"}

\* C11: re-enrollment fully overwrites the record: once update_encoding of an
\* identity has succeeded, the stored embedding is the one that was passed and
\* the stored metadata holds no caller's field other than the ones passed with
\* this call (nothing of an earlier enrollment is merged in), on every store.
C11_FullOverwrite ==
    (resp.op = "update" /\ ~resp.raised /\ resp.ret = TRUE) =>
        LET got == get_encoding(db_type, vdb, resp.user).ret
        IN  /\ got # EmptyDict
            /\ CosineSimilarity(LiveEmbedding(db_type, vdb, resp.user), resp.enc) = 1000
            /\ DOMAIN got.metadata \subseteq (AdapterKeys \cup DOMAIN resp.meta)
            /\ \A k \in DOMAIN resp.meta : got.metadata[k] = resp.meta[k]

\* C12: delete_encoding returns True exactly when the identity was live, and
\* then the identity is live no more while the others stay; it returns False,
\* leaving the store as it was, otherwise; a second delete_encoding of the
\* same identity returns False.
C12_RemoveReports ==
    \A u \in Users :
        LET r == delete_encoding(db_type, vdb, u)
            again == delete_encoding(db_type, r.db, u)
        IN  /\ ~r.raised
            /\ r.ret = (u \in Live(db_type, vdb))
            /\ Live(db_type, r.db) = Live(db_type, vdb) \ {u}
            /\ (r.ret = FALSE => r.db = vdb)
            /\ again.ret = FALSE
            /\ again.db = r.db

\* delete_encoding of a live identity has returned True while another identity
\* is live.
C12_Witness ==
    /\ resp.op = "delete"
    /\ resp.ret = TRUE
    /\ resp.user \notin Live(db_type, vdb)
    /\ Live(db_type, vdb) # {}

\* --------------------------------------------------- claims on the handlers

RecognitionHandlers ==
    {"recognize_students_from_photo", "match_faces_with_students_vector_db"}

EnrollmentHandlers ==
    {"upload_face_data", "upload_face_for_recognition", "student_upload_facial_data"}

\* The last request was a recognition that answered with its list of matches.
Recognized == resp.handler \in RecognitionHandlers /\ resp.status = 200

\* The last request was an enrollment that answered success.
EnrollmentSucceeded == resp.handler \in EnrollmentHandlers /\ resp.status \in {200, 201}

\* C1: the result of a recognition is a partial one-to-one assignment: no
\* identity is in two matches and no face is in two matches, in
\* recognize_students_from_photo and in match_faces_with_students_vector_db.
C1_OneToOne ==
    Recognized =>
        \A i, j \in 1..Len(resp.recognized_students) :
            i # j => /\ resp.recognized_students[i].student_id
                        # resp.recognized_students[j].student_id
                     /\ resp.recognized_students[i].face_number
                        # resp.recognized_students[j].face_number

\* A photo of two faces with the same embedding was answered with two matches:
\* the second face met an identity that the first had claimed.
C1_Witness ==
    /\ Recognized
    /\ Len(resp.faces) = 2
    /\ resp.faces[1] = resp.faces[2]
    /\ Len(resp.recognized_students) = 2

\* The threshold the queries of the last recognition were made with.
QueryThreshold ==
    IF resp.handler = "recognize_students_from_photo" THEN VectorDbThreshold
    ELSE resp.recognition_threshold

\* Every entry the index gives for a face at the threshold: [user_id, similarity].
Candidates(face) ==
    IF db_type = "none" THEN {}
    ELSE LET all == search_similar(db_type, vdb, face, Cardinality(Users) + MaxVectors,
                                   QueryThreshold, TRUE).ret
         IN  {[user_id |-> all[k].user_id, similarity |-> all[k].similarity] :
                 k \in 1..Len(all)}

\* The identities the faces before face i were matched to.
ClaimedBefore(i) ==
    {resp.recognized_students[k].student_id :
        k \in {n \in 1..Len(resp.recognized_students) :
                  resp.recognized_students[n].face_number < i}}

\* The candidates of face i that are on the roster and not claimed before it.
Eligible(i) ==
    {c \in Candidates(resp.faces[i]) :
        c.user_id \in resp.enrolled_ids /\ c.user_id \notin ClaimedBefore(i)}

\* The matches of the last recognition that are of face i.
MatchesOfFace(i) ==
    {resp.recognized_students[k] :
        k \in {n \in 1..Len(resp.recognized_students) :
                  resp.recognized_students[n].face_number = i}}

\* C2: recognition is greedy in the detector's order: each face is matched to
\* its most similar candidate that is on the roster, meets the threshold and is
\* not claimed by an earlier face, the next one when the top one is claimed; a
\* face is left unmatched only when it has no such candidate.
C2_GreedyNextEligible ==
    (Recognized /\ resp.query_errors = 0) =>
        \A i \in 1..Len(resp.faces) :
            IF Eligible(i) = {} THEN MatchesOfFace(i) = {}
            ELSE \E m \in MatchesOfFace(i) :
                    /\ \E c \in Eligible(i) :
                          c.user_id = m.student_id /\ c.similarity = m.confidence
                    /\ \A c \in Eligible(i) : c.similarity <= m.confidence

\* C3: the queries of recognize_students_from_photo are made with the
\* recognition_threshold of the request, so every match it returns has a
\* similarity at or above that threshold.
C3_CallerThreshold ==
    (resp.handler = "recognize_students_from_photo" /\ resp.status = 200) =>
        \A k \in 1..Len(resp.recognized_students) :
            resp.recognized_students[k].confidence >= resp.recognition_threshold

\* C4: when an enrollment handler answers success, the index holds the
\* aggregated embedding of the request as the one reference of the identity.
C4_EnrollmentStored ==
    EnrollmentSucceeded =>
        /\ db_type # "none"
        /\ resp.user \in Live(db_type, vdb)
        /\ Normalize(LiveEmbedding(db_type, vdb, resp.user)) = resp.encoding

\* C5: an error of the backing store during a query or a write is surfaced: a
\* request in which a call of the store raised does not answer success.
C5_StoreErrorSurfaced ==
    /\ Recognized => resp.query_errors = 0
    /\ EnrollmentSucceeded => ~resp.store_error
    /\ (resp.handler = "delete_face_data" /\ resp.status = 200) => ~resp.store_error

\* The face data of the identity has been soft-deleted, and it has not been
\* enrolled again.
Tombstoned(u) == u \in DOMAIN faceData /\ ~faceData[u].is_active

\* C10: an identity whose face data was removed is in no later recognition
\* result until it is enrolled again, also when the deletion from the store
\* failed.
C10_TombstoneExcluded ==
    Recognized =>
        \A k \in 1..Len(resp.recognized_students) :
            ~Tombstoned(resp.recognized_students[k].student_id)

\* ------------------------------------------------ claims on the model's load

\* C13: the embedding model is loaded at most once per process: whatever the
\* interleaving of the threads that call get_arcface_model and
\* initialize_arcface, at most one model is ever constructed.
C13_LoadedAtMostOnce == loads <= 1

\* ------------------------------------------- claims on concurrent queries

\* The identities a query for q observes: those of search_similar with a
\* top_k that takes every vector and min_similarity 0.
Observed(q, tie) ==
    LET r == search_similar(db_type, vdb, q, Len(vdb.index), 0, tie).ret
    IN  {r[i].user_id : i \in 1..Len(r)}

\* C14: a query beside a mutation of identity X never observes it half done:
\* while update_encoding overwrites an identity that was live, every query
\* observes the identity (with the old or the new embedding), and no query is
\* answered with an entry whose metadata is not there yet or no more.
C14_NoPartialMutation ==
    \A q \in StoreEmb, tie \in BOOLEAN :
        /\ \A t \in Threads :
              (threads[t].pc # "idle" /\ threads[t].op = "update" /\ threads[t].was_live)
              => threads[t].user \in Observed(q, tie)
        /\ LET r == search_similar(db_type, vdb, q, Len(vdb.index), 0, tie).ret
           IN  \A i \in 1..Len(r) : r[i].metadata # EmptyDict

\* ------------------------------------------------ claims on the similarity

\* C16: comparing two embeddings of different dimensions raises an error and
\* never yields a numeric similarity, in compute_similarity and in
\* _cosine_similarity.
C16_DimensionMismatchRaises ==
    (resp.op \in {"compute_similarity", "_cosine_similarity"}
        /\ Len(resp.a) # Len(resp.b))
    => resp.result.raised

\* --------------------------------------------- claims on the model families

\* The lengths of the embeddings the store holds.
StoredDimensions ==
    IF db_type = "faiss" THEN {Len(vdb.index[i]) : i \in 1..Len(vdb.index)}
    ELSE {Len(vdb[u].embedding) : u \in DOMAIN vdb}

\* C15: the two model families are never mixed inside one operation: the
\* encodings an enrollment passes to its aggregation are all of one model, and
\* a recognition queries the index only with embeddings of the model that
\* made the stored references.
C15_FamiliesNotMixed ==
    /\ (resp.handler \in EnrollmentHandlers /\ "dimensions" \in DOMAIN resp)
       => Cardinality(resp.dimensions) <= 1
    /\ (resp.handler \in RecognitionHandlers /\ "query_errors" \in DOMAIN resp
            /\ "enrolled_ids" \in DOMAIN resp /\ resp.enrolled_ids # {})
       => \A i \in 1..Len(resp.faces) : StoredDimensions \subseteq {Len(resp.faces[i])}

\* ------------------------------------------------ claims on the empty roster

\* The answer says that the roster is empty.
EmptyRosterIndicated ==
    /\ "error" \in DOMAIN resp
    /\ resp.error = "No students in this class have registered facial data"

\* C17: when no enrolled student of the class has active face data,
\* recognize_students_from_photo answers every photo it accepts, the photo
\* with no face included, with no match, the number of faces detected and an
\* indication that the roster is empty.
C17_EmptyRosterIndicated ==
    (/\ resp.handler = "recognize_students_from_photo"
     /\ "total_faces_detected" \in DOMAIN resp
     /\ EnrolledWithFaceData = {})
    => /\ EmptyRosterIndicated
       /\ resp.total_faces_detected = Len(resp.faces)
       /\ ("recognized_students" \in DOMAIN resp => resp.recognized_students = <<>>)

\* --------------------------------------------- claims on the threshold's range

\* C18: a recognition request whose threshold is outside the range of 0.4 to
\* 0.9 is rejected before any face is detected or the index is queried, by
\* recognize_students_from_photo and by the recognize-faces path.
C18_ThresholdRangeChecked ==
    (/\ resp.handler \in RecognitionHandlers
     /\ "recognition_threshold" \in DOMAIN resp
     /\ (resp.recognition_threshold < MinThreshold
            \/ resp.recognition_threshold > MaxThreshold))
    => /\ resp.status = 400
       /\ "total_faces_detected" \notin DOMAIN resp

\* ------------------------------------------------ claims on the batches

\* The handlers whose least number of usable images is 3.
MinimumThree == {"student_upload_facial_data", "upload_batch_with_progress"}

\* The request was refused for too few usable images.
RefusedAsInsufficient ==
    /\ resp.status = 400
    /\ "message" \in DOMAIN resp
    /\ resp.message \in {"Insufficient valid facial images for registration",
                         "Insufficient valid face images for registration",
                         "Need more valid face images for registration"}

\* C19: an enrollment whose least number of usable images is 3 is refused as
\* insufficient exactly when fewer than 3 of its images are usable: 5 images
\* of which 3 give a face are not refused so, and the answer tells the number
\* of usable images.
C19_MinimumUsable ==
    (resp.handler \in MinimumThree /\ "usable" \in DOMAIN resp)
    => (RefusedAsInsufficient <=> resp.usable < 3)

\* The images of a request that decoded and gave a face encoding.
WithFace(images) == {i \in 1..Len(images) : images[i].decodes /\ images[i].encoding # NoEmb}

\* C20: the number of usable images an enrollment reports is the number of
\* images that decoded and gave a face encoding; an image with no face is not
\* counted and gives nothing to the aggregation.
C20_UsableCount ==
    (resp.handler = "upload_multiple_face_data" /\ "usable" \in DOMAIN resp)
    => /\ resp.usable = Cardinality(WithFace(resp.images))
       /\ (resp.status \in {200, 201} => resp.encoding # NoEmb)

\* --------------------------------------------- claims on a photo with no face

\* The photo of the last request to recognize_students_from_photo had no face,
\* and its threshold was in range.
NoFaceRecognition ==
    /\ resp.handler = "recognize_students_from_photo"
    /\ "faces" \in DOMAIN resp
    /\ resp.faces = <<>>

\* C21: a photo in which the detector finds no face is answered 200 with
\* success, 0 faces detected, no recognised student and 0 unrecognised faces;
\* no query is made (none can have raised, whatever the state of the store),
\* and the answer depends on nothing but the request.
C21_NoFaceIsValid ==
    NoFaceRecognition
    => resp = [handler |-> "recognize_students_from_photo",
               status |-> 200, success |-> TRUE, faces |-> <<>>,
               recognition_threshold |-> resp.recognition_threshold,
               recognized_students |-> <<>>,
               total_faces_detected |-> 0,
               total_recognized |-> 0,
               unrecognized_faces |-> 0,
               enrolled_ids |-> {},
               query_errors |-> 0]

\* A photo with no face answered while the store is down and the class has
\* students with face data.
C21_Witness ==
    /\ NoFaceRecognition
    /\ store_down
    /\ EnrolledWithFaceData # {}
    /\ vdb # DbEmpty(db_type)

\* ------------------------------------------------ claims on the three stores

\* C22: for the same stored embeddings, query and threshold, the Chroma, the
\* FAISS and the Firestore adapter return the same users with the same
\* similarities.
C22_OneConvention ==
    resp.op = "search"
    => /\ resp.chroma = resp.firestore
       /\ resp.faiss = resp.firestore

\* ------------------------------------------------ claims on the statistics

\* C28: the count that the statistics report is the number of identities for
\* which get_encoding returns an entry, and the dimension they report is the
\* length of the embeddings the store holds.
C28_StatsAgree ==
    resp.op = "stats"
    => /\ resp.stats.total_encodings = Cardinality(Live(db_type, vdb))
       /\ \A u \in Live(db_type, vdb) :
             Len(LiveEmbedding(db_type, vdb, u)) = resp.stats.encoding_dimension

\* ------------------------------------------- claims on the face that wins

\* The matches the store gives for face j of the last recognition, with the
\* top_k and the threshold its handler asks with.
CandidatesOf(j) ==
    IF resp.handler = "recognize_students_from_photo"
    THEN search_similar(db_type, vdb, resp.faces[j], TopKRecognize, VectorDbThreshold, TRUE)
    ELSE search_similar(db_type, vdb, resp.faces[j], TopKAttendance,
                        resp.recognition_threshold, TRUE)

\* The similarity of face j to student x is that of a candidate: the store
\* returns x for the face.
CandidateOf(j, x, similarity) ==
    /\ ~CandidatesOf(j).raised
    /\ \E n \in 1..Len(CandidatesOf(j).ret) :
          /\ CandidatesOf(j).ret[n].user_id = x
          /\ CandidatesOf(j).ret[n].similarity = similarity

\* C23: the match returned for a student comes from the face that is most
\* similar to the student among the faces that have the student as a
\* candidate: no other face of the photo has the student as a candidate with
\* a higher similarity, in whatever order the detector gave the faces.
C23_BestFaceWins ==
    (Recognized /\ db_type # "none") =>
        \A k \in 1..Len(resp.recognized_students) :
            \A j \in 1..Len(resp.faces) :
                \A similarity \in 0..1000 :
                    CandidateOf(j, resp.recognized_students[k].student_id, similarity)
                    => similarity <= resp.recognized_students[k].confidence

\* ------------------------------------------- claims on the length of a vector

\* C24: the reference embedding an enrollment hands to the store is of unit
\* length (5 in the fixed point), after one image as after the average of
\* several, and so is every embedding the detector wrapper returned for it.
C24_UnitLength ==
    (/\ resp.handler \in EnrollmentHandlers \cup {"upload_multiple_face_data"}
     /\ resp.status \in {200, 201}
     /\ resp.encoding # NoEmb)
    => Norm(resp.encoding) = 5

\* ------------------------------------------- claims on the orientations

\* The last request was an enrollment by orientation that got as far as its
\* orientations.
OrientationsAnswered ==
    resp.handler = "upload_face_data_with_orientations" /\ "captured" \in DOMAIN resp

\* C25: an enrollment by orientation is accepted when it has the front and two
\* more orientations, at least 3; the reference it then stores is the
\* normalised average of the averages of its orientations.
C25_ThreeOrientations ==
    OrientationsAnswered =>
        /\ ("front" \in resp.captured /\ Cardinality(resp.captured) >= 3)
           => resp.status # 400
        /\ resp.status = 201
           => resp.encoding = NormalizeIfPositive(Mean(resp.per_orientation))

\* --------------------------------------- claims on the life of a student's data

\* The step is a successful upload of face data by student u.
UploadSucceeds(u) ==
    /\ resp'.handler \in EnrollmentHandlers
    /\ resp'.user = u
    /\ resp'.status \in {200, 201}

\* The step is a deletion of the face data of student u that answers 200.
DeleteSucceeds(u) ==
    /\ resp'.handler = "delete_student_facial_data"
    /\ resp'.user = u
    /\ resp'.status = 200

\* C26: a deletion that answers 200 leaves the student without active face
\* data; a student without it stays so through every step that is not a
\* successful upload of the student's; and the facial status reports
\* has_facial_data as it is.  So the status reports false from the deletion
\* until a later successful upload, whatever the uploads before.
C26_DeletedUntilUpload ==
    [][\A u \in Users :
          /\ DeleteSucceeds(u) => ~HasActiveFaceData(faceData', u)
          /\ (~HasActiveFaceData(faceData, u) /\ ~UploadSucceeds(u))
             => ~HasActiveFaceData(faceData', u)
          /\ (resp'.handler = "get_student_facial_status" /\ resp'.user = u)
             => resp'.has_facial_data = HasActiveFaceData(faceData', u)]_vars

\* The facial status of a student whose face data was deleted reports that
\* there is none.
C26_Witness ==
    /\ resp.handler = "get_student_facial_status"
    /\ Tombstoned(resp.user)
    /\ resp.has_facial_data = FALSE

\* C27: an enrollment that passed its validation succeeds, after a deletion
\* as before, and leaves the student with one active row of face data.
C27_EnrollAgain ==
    (resp.handler \in EnrollmentHandlers /\ "encoding" \in DOMAIN resp
     /\ resp.encoding # NoEmb)
    => /\ resp.status \in {200, 201}
       /\ HasActiveFaceData(faceData, resp.user)

\* ------------------------------------------------ claims on the class

\* C30: after a join_class or a leave_class that answered 200, the cached
\* student_count is the number of active enrollments of the class; and no
\* student has two enrollment rows, a student who rejoins gets the old row
\* back.
C30_StudentCount ==
    /\ \A u \in Users : Cardinality(RowsOf(class_enrollments, u)) <= 1
    /\ (resp.handler \in {"join_class", "leave_class"} /\ resp.status = 200)
       => student_count = ActiveCount(class_enrollments)

\* ------------------------------------------------ claims on the attendance

\* x is an element of the list.
InList(list, x) == \E i \in 1..Len(list) : list[i] = x

\* The step is a mark_attendance that answered 200.
Marks == resp'.handler = "mark_attendance" /\ resp'.status = 200

\* The session has at most one record for each student after the step, and
\* the records there were are as they were.
RecordsKept ==
    /\ \A u \in Users : Cardinality(RowsOf(attendance_records', u)) <= 1
    /\ Len(attendance_records') >= Len(attendance_records)
    /\ \A i \in 1..Len(attendance_records) : attendance_records'[i] = attendance_records[i]

\* A student of the request who is not actively enrolled is reported invalid
\* and gets no record.
InvalidReported ==
    \A k \in 1..Len(resp'.student_ids) :
        ~ActivelyEnrolled(class_enrollments, resp'.student_ids[k])
        => /\ InList(resp'.invalid_students, resp'.student_ids[k])
           /\ RowsOf(attendance_records', resp'.student_ids[k])
              = RowsOf(attendance_records, resp'.student_ids[k])

\* C29 as it is stated: there is at most one attendance record for a student
\* of the session; every student of the request who has a record is reported
\* as already marked and the record is left as it was; a student who is not
\* actively enrolled is reported invalid and gets no record.
C29_AsStated ==
    [][Marks =>
        /\ RecordsKept
        /\ \A k \in 1..Len(resp'.student_ids) :
              RowsOf(attendance_records, resp'.student_ids[k]) # {}
              => InList(resp'.already_marked, resp'.student_ids[k])
        /\ InvalidReported]_vars

\* C29, amended: there is at most one attendance record for a student of the
\* session; every actively enrolled student of the request who has a record
\* is reported as already marked and the record is left as it was; a student
\* who is not actively enrolled is reported invalid, with or without a
\* record, and gets no new record.
C29_OneRecord ==
    [][Marks =>
        /\ RecordsKept
        /\ \A k \in 1..Len(resp'.student_ids) :
              (/\ RowsOf(attendance_records, resp'.student_ids[k]) # {}
               /\ ActivelyEnrolled(class_enrollments, resp'.student_ids[k]))
              => InList(resp'.already_marked, resp'.student_ids[k])
        /\ InvalidReported]_vars

\* A request answered with a student who was marked before and a student who
\* is not enrolled.
C29_Witness ==
    /\ resp.handler = "mark_attendance"
    /\ resp.status = 200
    /\ resp.already_marked # <<>>
    /\ resp.invalid_students # <<>>
    /\ attendance_records # <<>>

====
